---- MODULE Spec2Model ----
(***************************************************************************)
(* Model of q3playground (src/main.c): the BSP loader's header check, the  *)
(* swept-box tracer and the player movement controller.                    *)
(*                                                                         *)
(* Floats are modelled in fixed point.  Lengths, positions, velocities and *)
(* plane distances are integers in units of 1/LS map unit; unit vectors    *)
(* (plane normals, normalised directions) and fractions are integers in    *)
(* units of 1/US.  Quotients are truncated toward zero.                    *)
(***************************************************************************)
EXTENDS Integers, Sequences, FiniteSets, TLC

VARIABLES
    pc,             \* position of the program
    running,        \* int running
    delta_time,     \* float delta_time, a fraction of a second
    camera_pos,     \* float camera_pos[3]
    camera_angle,   \* float camera_angle[2]: yaw, pitch, in quarter turns
    velocity,       \* float velocity[3]
    noclip,         \* int noclip
    movement,       \* int movement: the set of movement_bits that are set
    wishdir,        \* float wishdir[3]
    wishlook,       \* int wishlook[2], in quarter turns of mouse travel
    ground_normal,  \* float* ground_normal: NULL or the index of its plane
    direction,      \* apply_inputs: direction
    wishspeed,      \* apply_inputs: wishspeed
    base_wishspeed, \* apply_inputs: base_wishspeed
    exit_status,    \* status the process exited with, -1 while it runs
    n_ticks,        \* history: number of ticks completed
    jump_hist,      \* history: last of jump press, jump fired, jump release
    used_wishspeed, \* history: wishspeed apply_acceleration last worked with
    last_slide,     \* locals of the slide call in progress or last returned
    image,          \* the file image handed to bsp_load
    load_ret,       \* what bsp_load returned and the views it set up
    targs,          \* arguments of the trace under test
    work,           \* struct trace_work of the trace under test
    qargs,          \* arguments of the map query or parse under test
    qret            \* its locals and its result

player_vars ==
    <<running, delta_time, camera_pos, camera_angle, velocity, noclip,
      movement, wishdir, wishlook, ground_normal, direction, wishspeed,
      base_wishspeed, exit_status, n_ticks, jump_hist, used_wishspeed,
      last_slide>>

load_vars == <<image, load_ret>>

trace_vars == <<targs, work>>

query_vars == <<qargs, qret>>

vars == <<pc, player_vars, load_vars, trace_vars, query_vars>>

(***************************************************************************)
(* Fixed-point arithmetic                                                  *)
(***************************************************************************)
LS == 32
US == 16000

\* the element of a one-element set.  In The({ e(x) : x \in {v} }) the value
\* v is computed once and named x, as a C local is assigned once and then read
The(S) == CHOOSE x \in S : TRUE

Abs(a) == IF a < 0 THEN -a ELSE a

Min(a, b) == IF a < b THEN a ELSE b

Max(a, b) == IF a > b THEN a ELSE b

\* C-style quotient, truncated toward zero
TDiv(a, b) ==
    IF (a >= 0) = (b > 0)
    THEN Abs(a) \div Abs(b)
    ELSE -(Abs(a) \div Abs(b))

dot3(a, n) == TDiv(a[1] * n[1] + a[2] * n[2] + a[3] * n[3], US)

zero3 == << 0, 0, 0 >>

eq3(a, b) == a[1] = b[1] /\ a[2] = b[2] /\ a[3] = b[3]

\* a length times a fraction
MulU(a, f) == TDiv(a * f, US)

\* the largest magnitude of a fraction the fixed-point format holds
FracLimit == 1000

\* the quotient of two lengths, as a fraction (long division; saturates at
\* FracLimit, far outside the [-1, 1] every caller compares or clamps to)
DivU(a, b) ==
    LET q == Abs(a) \div Abs(b)
        r == Abs(a) % Abs(b)
        m == IF q >= FracLimit THEN FracLimit * US
             ELSE q * US + (r * US) \div Abs(b)
    IN  IF (a >= 0) = (b > 0) THEN m ELSE -m

(***************************************************************************)
(* The map: a floor slab, the 32-unit cube standing on it, a wall, a shelf *)
(* just above head height, one non-solid brush and one brush without sides *)
(***************************************************************************)
CONTENTS_SOLID == 1

\* the null pointer, where a plane index is expected
NULL == -1

Pl(nx, ny, nz, d) == [normal |-> <<nx * US, ny * US, nz * US>>, dist |-> d * LS]

map_planes ==
    << Pl(0, 0, 1, 0),     Pl(0, 0, -1, 64),   Pl(1, 0, 0, 256),
       Pl(-1, 0, 0, 256),  Pl(0, 1, 0, 256),   Pl(0, -1, 0, 256),
       Pl(1, 0, 0, 32),    Pl(-1, 0, 0, 0),    Pl(0, 1, 0, 32),
       Pl(0, -1, 0, 0),    Pl(0, 0, 1, 32),    Pl(0, 0, -1, 0),
       Pl(1, 0, 0, 160),   Pl(-1, 0, 0, -128), Pl(0, 0, 1, 256),
       Pl(1, 0, 0, 64),
       [normal |-> <<(3 * US) \div 5, (4 * US) \div 5, 0>>,
        dist |-> (-300) * LS],
       Pl(1, 0, 0, -128),  Pl(0, 0, 1, 64),
       [normal |-> <<0, 0, -US>>, dist |-> -(56 * LS + LS \div 4)] >>

map_textures == << [contents |-> 1], [contents |-> 0], [contents |-> 3] >>

\* plane index of every brushside
map_brushsides ==
    << 0, 1, 2, 3, 4, 5,
       6, 7, 8, 9, 10, 11,
       12, 13, 4, 5, 14, 11,
       17, 3, 4, 5, 18, 19 >>

map_brushes ==
    << [brushside |-> 0,  n_brushsides |-> 6, texture |-> 0],
       [brushside |-> 6,  n_brushsides |-> 6, texture |-> 2],
       [brushside |-> 12, n_brushsides |-> 6, texture |-> 0],
       [brushside |-> 0,  n_brushsides |-> 6, texture |-> 1],
       [brushside |-> 0,  n_brushsides |-> 0, texture |-> 0],
       [brushside |-> 18, n_brushsides |-> 6, texture |-> 0] >>

map_leafbrushes == << 0, 3, 4, 1, 5, 2 >>

map_leaves ==
    << [leafbrush |-> 0, n_leafbrushes |-> 1],
       [leafbrush |-> 1, n_leafbrushes |-> 4],
       [leafbrush |-> 5, n_leafbrushes |-> 1],
       [leafbrush |-> 0, n_leafbrushes |-> 0] >>

\* child[0] = front, child[1] = back; negative = leaf -(child) - 1
map_nodes ==
    << [plane |-> 0,  child |-> <<1, -1>>],
       [plane |-> 15, child |-> <<-3, 2>>],
       [plane |-> 16, child |-> <<-2, -4>>] >>

\* C arrays are indexed from 0
At(arr, i) == arr[i + 1]

n_planes == Len(map_planes)

(***************************************************************************)
(* Plane index                                                             *)
(***************************************************************************)
PLANE_NONAXIAL == 3

\* variant: the axes are tested from z to x
plane_type_z_first(normal) ==
    IF normal[3] = US \/ normal[3] = -US THEN 2
    ELSE IF normal[2] = US \/ normal[2] = -US THEN 1
    ELSE IF normal[1] = US \/ normal[1] = -US THEN 0
    ELSE 3

plane_type_for_normal(normal) ==
    IF normal[1] = US \/ normal[1] = -US THEN 0
    ELSE IF normal[2] = US \/ normal[2] = -US THEN 1
    ELSE IF normal[3] = US \/ normal[3] = -US THEN 2
    ELSE PLANE_NONAXIAL

signbits_for_normal(normal) ==
    (IF normal[1] < 0 THEN 1 ELSE 0) +
    (IF normal[2] < 0 THEN 2 ELSE 0) +
    (IF normal[3] < 0 THEN 4 ELSE 0)

planes ==
    [i \in 0 .. n_planes - 1 |->
        [signbits |-> signbits_for_normal(At(map_planes, i).normal),
         type |-> plane_type_for_normal(At(map_planes, i).normal)]]

(***************************************************************************)
(* Tracer                                                                  *)
(***************************************************************************)
SURF_CLIP_EPSILON == LS \div 8

\* work->plane before any brush has set it: struct trace_work lives on the
\* caller's stack and trace() never writes the field
UNSET == -2

\* work->offsets[signbits]
Offsets(w, signbits) ==
    << IF signbits % 2 = 1 THEN w.maxs[1] ELSE w.mins[1],
       IF (signbits \div 2) % 2 = 1 THEN w.maxs[2] ELSE w.mins[2],
       IF (signbits \div 4) % 2 = 1 THEN w.maxs[3] ELSE w.mins[3] >>

\* the entering fraction with the epsilon left out
EnterFracNoEpsilon(start_distance, end_distance) ==
    DivU(start_distance, start_distance - end_distance)

\* the fraction at which a move entering a brushside stops, SURF_CLIP_EPSILON
\* short of the plane
EnterFrac(start_distance, end_distance) ==
    DivU(start_distance - SURF_CLIP_EPSILON, start_distance - end_distance)

\* one iteration of the brushside loop; acc.ret is set by the early return
BrushSide(w, brush, i, acc) ==
    LET plane_index == At(map_brushsides, brush.brushside + i)
        plane == At(map_planes, plane_index)
        signbits == planes[plane_index].signbits
        dist == plane.dist - dot3(Offsets(w, signbits), plane.normal)
        start_distance == dot3(w.start, plane.normal) - dist
        end_distance == dot3(w.end, plane.normal) - dist
        fl == acc.flags
                \cup (IF start_distance > 0 THEN {"STARTS_OUT"} ELSE {})
                \cup (IF end_distance > 0 THEN {"ENDS_OUT"} ELSE {})
        a1 == [acc EXCEPT !.flags = fl]
    IN  IF start_distance > 0 /\
           (end_distance >= SURF_CLIP_EPSILON \/ end_distance >= start_distance)
        THEN [a1 EXCEPT !.ret = TRUE]
        ELSE IF start_distance <= 0 /\ end_distance <= 0
        THEN a1
        ELSE IF start_distance > end_distance
        THEN LET frac == EnterFrac(start_distance, end_distance)
             IN  IF frac > a1.start_frac
                 THEN [a1 EXCEPT !.start_frac = frac,
                                 !.closest_plane = plane_index]
                 ELSE a1
        ELSE LET frac == DivU(start_distance + SURF_CLIP_EPSILON,
                              start_distance - end_distance)
             IN  [a1 EXCEPT !.end_frac = Min(a1.end_frac, frac)]

RECURSIVE BrushSides(_, _, _, _)
BrushSides(w, brush, i, acc) ==
    IF i >= brush.n_brushsides \/ acc.ret
    THEN acc
    ELSE The({ BrushSides(w, brush, j, a) :
                 j \in {i + 1}, a \in {BrushSide(w, brush, i, acc)} })

\* the end of trace_brush without the rule
EmbeddedFracLeftOut(flags, frac) == frac

\* the "embedded in solid" rule at the end of trace_brush
EmbeddedFrac(flags, frac) ==
    IF flags \cap {"STARTS_OUT", "ENDS_OUT"} = {} THEN 0 ELSE frac

\* the commit of the nearest entering plane at the end of trace_brush
CommitFrac(start_frac) == Max(start_frac, 0)

\* trace_brush after the brushside loop has left acc
BrushResult(w, acc) ==
    LET w1 == [w EXCEPT !.flags = acc.flags, !.n_tested = w.n_tested + 1]
    IN  IF acc.ret
        THEN w1
        ELSE LET hit == acc.start_frac < acc.end_frac /\
                        acc.start_frac > -US /\ acc.start_frac < w.frac
                 w2 == IF hit
                       THEN [w1 EXCEPT !.frac = CommitFrac(acc.start_frac),
                                       !.plane = acc.closest_plane]
                       ELSE w1
             IN  [w2 EXCEPT !.frac = EmbeddedFrac(w2.flags, w2.frac)]

trace_brush(w, brush) ==
    The({ BrushResult(w, acc) :
            acc \in {BrushSides(w, brush, 0,
                        [start_frac |-> -US, end_frac |-> US,
                         closest_plane |-> UNSET, flags |-> w.flags,
                         ret |-> FALSE])} })

RECURSIVE LeafBrushes(_, _, _)
LeafBrushes(w, leaf, i) ==
    IF i >= leaf.n_leafbrushes
    THEN w
    ELSE LET brush_index == At(map_leafbrushes, leaf.leafbrush + i)
             brush == At(map_brushes, brush_index)
             contents == At(map_textures, brush.texture).contents
         IN  IF brush.n_brushsides # 0 /\ (contents % 2) = CONTENTS_SOLID
             THEN The({ IF w1.frac = 0 THEN w1 ELSE LeafBrushes(w1, leaf, j) :
                          j \in {i + 1},
                          w1 \in {The({ trace_brush(w, b) : b \in {brush} })} })
             ELSE The({ LeafBrushes(w, leaf, j) : j \in {i + 1} })

trace_leaf(w, index) ==
    The({ LeafBrushes(w, leaf, 0) : leaf \in {At(map_leaves, index)} })

Clamp01(f) == Max(0, Min(US, f))

Lerp(a, b, f) ==
    << a[1] + MulU(b[1] - a[1], f),
       a[2] + MulU(b[2] - a[2], f),
       a[3] + MulU(b[3] - a[3], f) >>

RECURSIVE trace_node(_, _, _, _, _, _)
trace_node(w, index, start_frac, end_frac, start, end) ==
    IF index < 0
    THEN trace_leaf(w, (-index) - 1)
    ELSE
    LET node == At(map_nodes, index)
        plane == At(map_planes, node.plane)
        plane_type == planes[node.plane].type
        axial == plane_type < 3
        start_distance == IF axial THEN start[plane_type + 1] - plane.dist
                          ELSE dot3(start, plane.normal) - plane.dist
        end_distance == IF axial THEN end[plane_type + 1] - plane.dist
                        ELSE dot3(end, plane.normal) - plane.dist
        offset == IF axial THEN w.maxs[plane_type + 1]
                  ELSE IF eq3(w.mins, w.maxs) THEN 0 ELSE 2048 * LS
    IN  IF start_distance >= offset + LS /\ end_distance >= offset + LS
        THEN The({ trace_node(w, c, start_frac, end_frac, start, end) :
                     c \in {node.child[1]} })
        ELSE IF start_distance < -offset - LS /\ end_distance < -offset - LS
        THEN The({ trace_node(w, c, start_frac, end_frac, start, end) :
                     c \in {node.child[2]} })
        ELSE
        LET side == IF start_distance < end_distance THEN 1 ELSE 0
            d == start_distance - end_distance
            frac1 == Clamp01(
                IF start_distance < end_distance
                THEN DivU(start_distance - offset + SURF_CLIP_EPSILON, d)
                ELSE IF start_distance > end_distance
                THEN DivU(start_distance + offset + SURF_CLIP_EPSILON, d)
                ELSE US)
            frac2 == Clamp01(
                IF start_distance < end_distance
                THEN DivU(start_distance + offset + SURF_CLIP_EPSILON, d)
                ELSE IF start_distance > end_distance
                THEN DivU(start_distance - offset - SURF_CLIP_EPSILON, d)
                ELSE 0)
            mid_frac1 == start_frac + MulU(end_frac - start_frac, frac1)
            mid1 == Lerp(start, end, frac1)
            mid_frac2 == start_frac + MulU(end_frac - start_frac, frac2)
            mid2 == Lerp(start, end, frac2)
        IN  The({ trace_node(w1, c2, mf2, end_frac, m2, end) :
                    c2 \in {node.child[(1 - side) + 1]},
                    mf2 \in {mid_frac2}, m2 \in {mid2},
                    w1 \in {The({ trace_node(w, c1, start_frac, mf1, start, m1) :
                                   c1 \in {node.child[side + 1]},
                                   mf1 \in {mid_frac1}, m1 \in {mid1} })} })

\* (mins[i] + maxs[i]) * 0.5f
BoxOffset(mins, maxs) ==
    << TDiv(mins[1] + maxs[1], 2), TDiv(mins[2] + maxs[2], 2),
       TDiv(mins[3] + maxs[3], 2) >>

Add3(a, b) == << a[1] + b[1], a[2] + b[2], a[3] + b[3] >>

Sub3(a, b) == << a[1] - b[1], a[2] - b[2], a[3] - b[3] >>

\* endpos, from the caller's start and end
EndPos(start, end, frac) ==
    IF frac = US THEN end ELSE Lerp(start, end, frac)

\* faulty variant of TraceEndPos: endpos from the recentred segment
TraceEndPosShifted(w, start, end) == EndPos(w.start, w.end, w.frac)

\* the tail of trace(): endpos from the unmodified start and end
TraceEndPos(w, start, end) == EndPos(start, end, w.frac)

\* the head of trace(): frac, flags and the recentred box and segment
TraceStart(start, end, mins, maxs) ==
    LET o == BoxOffset(mins, maxs)
    IN  [frac |-> US, flags |-> {}, plane |-> UNSET,
         mins |-> Sub3(mins, o), maxs |-> Sub3(maxs, o),
         start |-> Add3(start, o), end |-> Add3(end, o),
         endpos |-> start, n_tested |-> 0]

trace(start, end, mins, maxs) ==
    The({ [w1 EXCEPT !.endpos = TraceEndPos(w1, start, end)] :
            w1 \in {The({ trace_node(w0, 0, 0, US, s, e) :
                           w0 \in {TraceStart(start, end, mins, maxs)},
                           s \in {Add3(start, BoxOffset(mins, maxs))},
                           e \in {Add3(end, BoxOffset(mins, maxs))} })} })

\* a trace_work nobody has traced with yet
IdleWork ==
    [frac |-> US, flags |-> {}, plane |-> UNSET, mins |-> zero3,
     maxs |-> zero3, start |-> zero3, end |-> zero3, endpos |-> zero3,
     n_tested |-> 0]

player_mins == << -15 * LS, -15 * LS, -24 * LS >>

player_maxs == << 15 * LS, 15 * LS, 32 * LS >>

(***************************************************************************)
(* Vector helpers of the movement code                                     *)
(***************************************************************************)
RECURSIVE SqrtIter(_, _, _)
SqrtIter(n, lo, hi) ==
    IF lo >= hi THEN lo
    ELSE The({ IF mid * mid <= n THEN SqrtIter(n, mid, hi)
               ELSE The({ SqrtIter(n, lo, h) : h \in {mid - 1} }) :
                 mid \in {(lo + hi + 1) \div 2} })

\* floor of the square root of n, 0 <= n < 2^31
ISqrt(n) == The({ SqrtIter(m, 0, 46340) : m \in {n} })

Max3Abs(v) == Max(Abs(v[1]), Max(Abs(v[2]), Abs(v[3])))

\* mag3: sqrt(dot3(v, v)); long vectors are scaled down before squaring
mag3(v) ==
    IF Max3Abs(v) <= 26000
    THEN ISqrt(v[1] * v[1] + v[2] * v[2] + v[3] * v[3])
    ELSE 16 * ISqrt((v[1] \div 16) * (v[1] \div 16) +
                    (v[2] \div 16) * (v[2] \div 16) +
                    (v[3] \div 16) * (v[3] \div 16))

\* v scaled by a fraction
Scale3(v, f) == << MulU(v[1], f), MulU(v[2], f), MulU(v[3], f) >>

\* a length vector divided by a length: a unit-scale vector
Div3(v, len) == << DivU(v[1], len), DivU(v[2], len), DivU(v[3], len) >>

\* nrm3 of a length vector: unchanged (zero) when squared_len < 0.0001
nrm3(v) == IF mag3(v) = 0 THEN zero3 ELSE Div3(v, mag3(v))

\* nrm3 of a unit-scale vector
nrm3U(u) ==
    IF 100 * mag3(u) < US THEN u
    ELSE << TDiv(u[1] * US, mag3(u)), TDiv(u[2] * US, mag3(u)),
            TDiv(u[3] * US, mag3(u)) >>

cross3(a, b) ==
    << TDiv(a[2] * b[3] - a[3] * b[2], US),
       TDiv(a[3] * b[1] - a[1] * b[3], US),
       TDiv(a[1] * b[2] - a[2] * b[1], US) >>

(***************************************************************************)
(* Movement controller                                                     *)
(***************************************************************************)
cl_forwardspeed == 400 * LS

cl_sidespeed == 350 * LS

\* accelerations are kept in tenths (cpm_air_stop_acceleration = 2.5)
cl_movement_accelerate == 150

cl_movement_airaccelerate == 70

cpm_air_stop_acceleration == 25

cpm_strafe_acceleration == 700

cl_movement_friction == 8

sv_gravity == 800 * LS

sv_max_speed == 320 * LS

cl_stop_speed == 200 * LS

cpm_wish_speed == 30 * LS

JumpVelocity == 270 * LS

GroundTraceDepth == LS \div 4

\* sin and cos of 2*pi - angle, the angle in quarter turns
SinNeg(q) == IF q % 4 = 1 THEN -US ELSE IF q % 4 = 3 THEN US ELSE 0

CosNeg(q) == IF q % 4 = 0 THEN US ELSE IF q % 4 = 2 THEN -US ELSE 0

\* clamp_angles: into [0, 2*pi)
clamp_angle(q) == q % 4

\* the rotation of wishdir in apply_inputs: pitch first, then yaw
Rotate(wd, angle, nc) ==
    LET pitch_sin == IF nc THEN SinNeg(angle[2]) ELSE 0
        pitch_cos == IF nc THEN CosNeg(angle[2]) ELSE US
        yaw_sin == SinNeg(angle[1])
        yaw_cos == CosNeg(angle[1])
        pitch_x == MulU(wd[1], pitch_cos) + MulU(wd[3], -pitch_sin)
    IN  << MulU(pitch_x, yaw_cos) + MulU(wd[2], -yaw_sin),
           MulU(pitch_x, yaw_sin) + MulU(wd[2], yaw_cos),
           MulU(wd[1], pitch_sin) + MulU(wd[3], pitch_cos) >>

\* apply_jump: the new movement flags and velocity
JumpFires(mv, nc) == "JUMP" \in mv /\ ("JUMPING" \notin mv \/ nc)

\* faulty variant of JumpLatch: MOVEMENT_JUMP stays set (auto bunnyhop)
JumpLatchKeepsHeld(mv) == mv \cup {"JUMP_THIS_FRAME"}

\* movement flags once a jump has fired
JumpLatch(mv) == (mv \cup {"JUMP_THIS_FRAME"}) \ {"JUMP"}

apply_jump(mv, vel, nc) ==
    IF JumpFires(mv, nc)
    THEN [movement |-> JumpLatch(mv),
          velocity |-> [vel EXCEPT ![3] = JumpVelocity]]
    ELSE [movement |-> mv, velocity |-> vel]

\* variant: on the ground the horizontal velocity is always cleared
apply_friction_stops(mv, vel, nc, dt) ==
    IF ~nc /\ ("JUMPING" \in mv \/ "JUMP_THIS_FRAME" \in mv)
    THEN vel
    ELSE << 0, 0, vel[3] >>

apply_friction(mv, vel, nc, dt) ==
    IF ~nc /\ ("JUMPING" \in mv \/ "JUMP_THIS_FRAME" \in mv)
    THEN vel
    ELSE LET speed == mag3(vel)
             control == IF speed < cl_stop_speed THEN cl_stop_speed ELSE speed
             new_speed == Max(0, speed - cl_movement_friction * MulU(control, dt))
         IN  IF speed < LS
             THEN << 0, 0, vel[3] >>
             ELSE Scale3(vel, DivU(new_speed, speed))

\* the player counts as in the air
InAir(mv, nc) == nc \/ "JUMPING" \in mv \/ "JUMP_THIS_FRAME" \in mv

\* variant: the ground acceleration whatever the player does
SelectAccelGround(mv, vel, nc, wd, dir) == cl_movement_accelerate

\* acceleration selected by apply_inputs
SelectAccel(mv, vel, nc, wd, dir) ==
    IF InAir(mv, nc)
    THEN IF wd[2] # 0 /\ wd[1] = 0 THEN cpm_strafe_acceleration
         ELSE IF dot3(vel, dir) < 0 THEN cpm_air_stop_acceleration
         ELSE cl_movement_airaccelerate
    ELSE cl_movement_accelerate

\* wishspeed apply_inputs passes to apply_acceleration
SelectWishspeed(mv, nc, wd, ws) ==
    IF InAir(mv, nc) /\ wd[2] # 0 /\ wd[1] = 0
    THEN Min(ws, cpm_wish_speed)
    ELSE ws

\* faulty variant of AccelWishspeed: no air clamp
AccelWishspeedUnclamped(mv, nc, ws) == ws

\* the clamp at the top of apply_acceleration
AccelWishspeed(mv, nc, ws) ==
    IF ~nc /\ "JUMPING" \in mv THEN Min(cpm_wish_speed, ws) ELSE ws

apply_acceleration(mv, vel, nc, dir, ws, accel, dt) ==
    LET clamped == AccelWishspeed(mv, nc, ws)
        cur_speed == dot3(vel, dir)
        add_speed == clamped - cur_speed
        accel_speed == Min(MulU(TDiv(accel * clamped, 10), dt), add_speed)
    IN  IF add_speed <= 0 THEN vel
        ELSE Add3(vel, Scale3(dir, accel_speed))

apply_air_control(vel, wd, dir, ws) ==
    IF wd[1] = 0 \/ ws = 0
    THEN vel
    ELSE LET flat == << vel[1], vel[2], 0 >>
             speed == mag3(flat)
             u == IF speed >= 1 THEN Div3(flat, speed) ELSE flat
             dot == dot3(u, dir)
             n == IF dot > 0 THEN nrm3(Scale3(u, speed)) ELSE u
             r == << MulU(speed, n[1]), MulU(speed, n[2]), MulU(speed, n[3]) >>
         IN  << r[1], r[2], vel[3] >>

\* OVERCLIP = 1.001f, as a ratio
OVERCLIP_NUM == 1001

OVERCLIP_DEN == 1000

MAX_CLIP_PLANES == 5

\* variant: one more pass of the bump loop
MaxBumpsOneMore == 4 + 1

MAX_BUMPS == 4

\* variant: the backoff is multiplied by the overbounce in both cases
clip_velocity_over(in, normal) ==
    << in[1] - MulU(TDiv(dot3(in, normal) * OVERCLIP_NUM, OVERCLIP_DEN),
                    normal[1]),
       in[2] - MulU(TDiv(dot3(in, normal) * OVERCLIP_NUM, OVERCLIP_DEN),
                    normal[2]),
       in[3] - MulU(TDiv(dot3(in, normal) * OVERCLIP_NUM, OVERCLIP_DEN),
                    normal[3]) >>

clip_velocity(in, normal) ==
    LET b == dot3(in, normal)
        backoff == IF b < 0 THEN TDiv(b * OVERCLIP_NUM, OVERCLIP_DEN)
                   ELSE TDiv(b * OVERCLIP_DEN, OVERCLIP_NUM)
    IN  << in[1] - MulU(backoff, normal[1]),
           in[2] - MulU(backoff, normal[2]),
           in[3] - MulU(backoff, normal[3]) >>

\* dot3(v, plane) >= 0.1 for a velocity v
Clear01(v, plane) == 10 * dot3(v, plane) >= LS

\* the k loop: some third plane still blocks the move along the crease
ThirdPlaneBlocks(clipped, pls, i, j) ==
    \E k \in 1 .. Len(pls) : k # i /\ k # j /\ ~Clear01(clipped, pls[k])

\* the j loop of slide, from plane j on; c = [clipped, end_clipped, abort]
RECURSIVE ClipJ(_, _, _, _, _, _)
ClipJ(c, vel, end_vel, pls, i, j) ==
    IF j > Len(pls) \/ c.abort THEN c
    ELSE IF j = i \/ Clear01(c.clipped, pls[j])
    THEN The({ ClipJ(c, vel, end_vel, pls, i, n) : n \in {j + 1} })
    ELSE The({
        IF dot3(c1, pls[i]) >= 0
        THEN The({ ClipJ(d, vel, end_vel, pls, i, n) :
                     d \in {[c EXCEPT !.clipped = c1, !.end_clipped = e1]},
                     n \in {j + 1} })
        ELSE The({
            IF ThirdPlaneBlocks(Scale3(dir, dot3(vel, dir)), pls, i, j)
            THEN [c EXCEPT !.abort = TRUE]
            ELSE The({ ClipJ(d, vel, end_vel, pls, i, n) :
                         d \in {[c EXCEPT
                                   !.clipped = Scale3(dir, dot3(vel, dir)),
                                   !.end_clipped =
                                       Scale3(dir, dot3(end_vel, dir))]},
                         n \in {j + 1} }) :
              dir \in {nrm3U(cross3(pls[i], pls[j]))} }) :
          c1 \in {clip_velocity(c.clipped, pls[j])},
          e1 \in {clip_velocity(c.end_clipped, pls[j])} })

\* the body of the i loop for the plane i it stops at
ClipI(vel, end_vel, pls, i) ==
    The({ [velocity |-> c.clipped, end_velocity |-> c.end_clipped,
           abort |-> c.abort] :
            c \in {The({ ClipJ(c0, vel, end_vel, pls, i, 1) :
                         c0 \in {[clipped |-> clip_velocity(vel, pls[i]),
                                  end_clipped |->
                                      clip_velocity(end_vel, pls[i]),
                                  abort |-> FALSE]} })} })

\* the i loop of slide: clip against the first plane the velocity opposes
ClipAgainstPlanes(vel, end_vel, pls) ==
    LET opposed == { i \in 1 .. Len(pls) : ~Clear01(vel, pls[i]) }
    IN  IF opposed = {}
        THEN [velocity |-> vel, end_velocity |-> end_vel, abort |-> FALSE]
        ELSE The({ ClipI(vel, end_vel, pls, i) :
                     i \in {CHOOSE m \in opposed :
                               \A o \in opposed : m <= o} })

\* the plane slide reads through work.plane; garbage stands for the value an
\* unwritten work.plane holds
ContactPlane(w, garbage) == IF w.plane = UNSET THEN garbage ELSE w.plane

\* variant: time_left is not reduced
TimeLeftKept(time_left, frac) == time_left

\* time_left after a blocked trace
TimeLeft(time_left, frac) == time_left - MulU(time_left, frac)

\* variant: the position is moved to where the move was meant to end
BumpPosToEnd(pos, w) == w.end

\* position after the trace of one bump
BumpPos(pos, w) == IF w.frac > 0 THEN w.endpos ELSE pos

\* the bump loop of slide.  st.ret is "loop" while the loop runs, "done" after
\* the loop has been left, "abort" after a return 1 from inside the loop and
\* "crash" after a read through a null work.plane
\* one pass of the bump loop after its trace has returned w; ret stays
\* "loop" when the pass ends in continue or falls through to the next one
Bump(st, n_bumps, garbage, w) ==
    LET pos1 == BumpPos(st.pos, w)
        tl1 == TimeLeft(st.time_left, w.frac)
        s1 == [st EXCEPT !.pos = pos1, !.n_traces = st.n_traces + 1,
                         !.n_bumps = n_bumps,
                         !.fracs = Append(st.fracs, w.frac),
                         !.times = Append(st.times, st.time_left),
                         !.ends = Append(st.ends, w.endpos),
                         !.poss = Append(st.poss, pos1)]
        s2 == [s1 EXCEPT !.time_left = tl1]
        cp == ContactPlane(w, garbage)
    IN  IF w.frac = US
        THEN [s1 EXCEPT !.ret = "done"]
        ELSE IF Len(st.planes) >= MAX_CLIP_PLANES
        THEN [s2 EXCEPT !.velocity = zero3, !.ret = "abort"]
        ELSE IF cp = NULL
        THEN [s2 EXCEPT !.ret = "crash", !.unset = TRUE]
        ELSE
        LET s3 == [s2 EXCEPT !.unset = @ \/ w.plane = UNSET]
            normal == At(map_planes, cp).normal
            seen == \E i \in 1 .. Len(st.planes) :
                        100 * dot3(normal, st.planes[i]) > 99 * US
        IN  IF seen
            THEN [s3 EXCEPT !.velocity =
                      Add3(st.velocity, Scale3(normal, LS))]
            ELSE The({
                IF c.abort
                THEN [s3 EXCEPT !.planes = Append(st.planes, normal),
                                !.velocity = zero3, !.ret = "abort"]
                ELSE [s3 EXCEPT !.planes = Append(st.planes, normal),
                                !.velocity = c.velocity,
                                !.end_velocity = c.end_velocity] :
                  c \in {The({ ClipAgainstPlanes(st.velocity, st.end_velocity,
                                                pls) :
                               pls \in {Append(st.planes, normal)} })} })

\* the bump loop of slide, from pass n_bumps on
RECURSIVE Bumps(_, _, _)
Bumps(st, n_bumps, garbage) ==
    IF n_bumps >= MAX_BUMPS
    THEN [st EXCEPT !.ret = "done", !.n_bumps = n_bumps]
    ELSE The({
        IF s.ret = "loop" THEN Bumps(s, n, garbage) ELSE s :
          n \in {n_bumps + 1},
          s \in {The({ Bump(st, n_bumps, garbage, w) :
                       w \in {The({ trace(st.pos, end, player_mins,
                                          player_maxs) :
                                    end \in {Add3(Scale3(st.velocity,
                                                         st.time_left),
                                                  st.pos)} })} })} })

\* slide(gravity) up to the bump loop: the locals at its first pass.  fracs
\* and times list the frac of each trace made and the time_left it was made
\* with, ends its endpos and poss the position after it; unset tells that an
\* unset work.plane was read
SlideEntry(pos, vel, gn, gravity, dt) ==
    LET end_velocity == IF gravity
                        THEN [vel EXCEPT ![3] = vel[3] - MulU(sv_gravity, dt)]
                        ELSE vel
        v1 == IF gravity
              THEN [vel EXCEPT ![3] = TDiv(end_velocity[3] + vel[3], 2)]
              ELSE vel
        v2 == IF gravity /\ gn # NULL
              THEN clip_velocity(v1, At(map_planes, gn).normal)
              ELSE v1
        pls == (IF gn # NULL THEN << At(map_planes, gn).normal >> ELSE << >>)
                 \o << nrm3(v2) >>
    IN  [pos |-> pos, velocity |-> v2, end_velocity |-> end_velocity,
         planes |-> pls, time_left |-> dt, ret |-> "loop", n_traces |-> 0,
         n_bumps |-> 0, fracs |-> << >>, times |-> << >>, unset |-> FALSE,
         ends |-> << >>, poss |-> << >>]

\* variant: the velocity of the last pass is kept
SlideExitKeepsVelocity(st, gravity) == st

\* slide(gravity) after the bump loop was left without a return
SlideExit(st, gravity) ==
    IF gravity /\ st.ret = "done"
    THEN [st EXCEPT !.velocity = st.end_velocity]
    ELSE st

\* slide(gravity): the player's position and velocity after the call
slide(pos, vel, gn, gravity, dt, garbage) ==
    The({ SlideExit(st, gravity) :
          st \in {The({ Bumps(st0, 0, garbage) :
                        st0 \in {SlideEntry(pos, vel, gn, gravity, dt)} })} })

(***************************************************************************)
(* BSP loader                                                              *)
(***************************************************************************)
\* sizeof(struct bsp_header): magic, version and 17 directory entries
HeaderSize == 4 + 4 + 17 * 8

N_LUMPS == 17

\* sizeof of the record of lumps 1 .. 15, in the order bsp_load maps them
RecordSize ==
    << 72, 16, 36, 48, 4, 4, 40, 12, 8, 44, 4, 72, 104, 49152, 8 >>

\* the typed view the lump macro sets up for directory entry d
LumpView(d, size) == [offset |-> d.offset, n |-> d.length \div size]

\* bsp_load on an image: ret is the int it returns
bsp_load(img) ==
    IF ~img.readable
    THEN [ret |-> 0, views |-> << >>]
    ELSE IF img.size < HeaderSize
    THEN [ret |-> 0, views |-> << >>]
    ELSE [ret |-> 1,
          views |-> [i \in 1 .. 15 |->
                        LumpView(At(img.dirents, i), RecordSize[i])]]

(***************************************************************************)
(* Spatial queries: bsp_find_leaf and bsp_cluster_visible                  *)
(***************************************************************************)
\* the child bsp_find_leaf descends to
\* variant: the back child on the front side
LeafChildSwapped(node, distance) ==
    IF distance >= 0 THEN node.child[2] ELSE node.child[1]

LeafChild(node, distance) ==
    IF distance >= 0 THEN node.child[1] ELSE node.child[2]

\* distance of pos from the plane of a node
LeafDistance(node, pos) ==
    dot3(pos, At(map_planes, node.plane).normal) - At(map_planes, node.plane).dist

\* what the return statement of bsp_find_leaf yields
LeafOfIndex(index) == (-index) - 1

\* values a read of file->nodes[index] past the array can yield for the
\* child it follows: a leaf, a leaf past the leaf array, the root
GarbageChildren == { -1, -9, 0 }

\* bit k of a byte
Bit(byte, k) == (byte \div (2 ^ k)) % 2

\* C's a % b, whose sign follows a
CRem(a, b) == a - b * TDiv(a, b)

\* index = from * file->visdata->sz_vecs + target / 8
\* variant: vector of the target cluster, byte of the source cluster
VisIndexTransposed(vis, from, target) == target * vis.sz_vecs + TDiv(from, 8)

VisIndex(vis, from, target) == from * vis.sz_vecs + TDiv(target, 8)

\* the byte read lies in the bit block and the shift count is not negative
VisDefined(vis, from, target) ==
    /\ VisIndex(vis, from, target) >= 0
    /\ VisIndex(vis, from, target) < Len(vis.vecs)
    /\ CRem(target, 8) >= 0

\* bsp_cluster_visible: the results the call can have.  A read outside the
\* bit block or a shift by a negative count is undefined: any result, or a
\* fault
bsp_cluster_visible(vis, from, target) ==
    IF VisDefined(vis, from, target)
    THEN { [ret |-> Bit(At(vis.vecs, VisIndex(vis, from, target)),
                        CRem(target, 8)),
            fault |-> FALSE] }
    ELSE { [ret |-> 0, fault |-> FALSE], [ret |-> 1, fault |-> FALSE],
           [ret |-> 0, fault |-> TRUE] }

(***************************************************************************)
(* Entities and spawn point.  The entity lump is taken as the tokens       *)
(* lex_entities() cuts it into; a string is the sequence of its            *)
(* characters, and an unterminated string is a string token followed by    *)
(* the end of the data.  A pointer that may be null is a set with at most  *)
(* one element.                                                            *)
(***************************************************************************)
\* the token the lexer yields at position i: token_kind 0 at the end
Token(toks, i) ==
    IF i <= Len(toks) THEN toks[i] ELSE [kind |-> "eof", str |-> << >>]

\* the while loop of parse_entities: key, value pairs up to the first token
\* that is no string; ok is false on the return inside the loop
RECURSIVE ParseFields(_, _, _)
ParseFields(toks, i, fields) ==
    IF Token(toks, i).kind # "str"
    THEN [ok |-> TRUE, i |-> i, fields |-> fields]
    ELSE IF Token(toks, i + 1).kind # "str"
    THEN [ok |-> FALSE, i |-> i + 1, fields |-> fields]
    ELSE ParseFields(toks, i + 2,
                     Append(fields, [key |-> toks[i].str,
                                     value |-> toks[i + 1].str]))

\* the do-while loop of parse_entities from token i on
RECURSIVE ParseEntity(_, _, _)
ParseEntity(toks, i, ents) ==
    IF Token(toks, i).kind # "{"
    THEN ents
    ELSE The({
        IF ~f.ok THEN ents
        ELSE IF Token(toks, f.i).kind # "}" THEN Append(ents, f.fields)
        ELSE IF Token(toks, f.i + 1).kind = "eof" THEN Append(ents, f.fields)
        ELSE ParseEntity(toks, f.i + 1, Append(ents, f.fields)) :
          f \in {ParseFields(toks, i + 1, << >>)} })

parse_entities(toks) == ParseEntity(toks, 1, << >>)

\* the strings the program compares keys and values with
Text ==
    [classname |-> << "c", "l", "a", "s", "s", "n", "a", "m", "e" >>,
     spawn |-> << "i", "n", "f", "o", "_", "p", "l", "a", "y", "e", "r", "_",
                  "d", "e", "a", "t", "h", "m", "a", "t", "c", "h" >>,
     origin |-> << "o", "r", "i", "g", "i", "n" >>,
     angle |-> << "a", "n", "g", "l", "e" >>]

\* value of the first field with that key
entity_get(entity, key) ==
    { entity[i].value :
        i \in { i \in 1 .. Len(entity) :
                  /\ entity[i].key = key
                  /\ \A j \in 1 .. i - 1 : entity[j].key # key } }

\* first entity whose classname is the given one
entity_by_classname(ents, classname) ==
    { ents[i] :
        i \in { i \in 1 .. Len(ents) :
                  /\ entity_get(ents[i], Text.classname) = {classname}
                  /\ \A j \in 1 .. i - 1 :
                       entity_get(ents[j], Text.classname) # {classname} } }

DigitChars == << "0", "1", "2", "3", "4", "5", "6", "7", "8", "9" >>

RECURSIVE SkipSpace(_, _)
SkipSpace(s, i) ==
    IF i <= Len(s) /\ s[i] \in { " ", "\t", "\n" }
    THEN SkipSpace(s, i + 1)
    ELSE i

RECURSIVE Digits(_, _, _)
Digits(s, i, acc) ==
    IF i <= Len(s) /\ (\E d \in 1 .. 10 : DigitChars[d] = s[i])
    THEN Digits(s, i + 1,
                acc * 10 + (CHOOSE d \in 1 .. 10 : DigitChars[d] = s[i]) - 1)
    ELSE [val |-> acc, end |-> i]

\* the number at position i of s as atoi and strtod read it (the strings
\* used here have no fraction and no exponent): white space, a sign, digits.
\* end is the position after the number, i itself when there is none
Number(s, i) ==
    LET j == SkipSpace(s, i)
        signed == j <= Len(s) /\ s[j] \in { "-", "+" }
        k == IF signed THEN j + 1 ELSE j
        d == Digits(s, k, 0)
    IN  IF d.end = k
        THEN [val |-> 0, end |-> i]
        ELSE [val |-> IF signed /\ s[j] = "-" THEN -d.val ELSE d.val,
              end |-> d.end]

atoi(s) == Number(s, 1).val

\* radians(deg), in quarter turns
radians(deg) == TDiv(deg, 90)

\* for (i = 0; origin && *origin && i < 3; ++i)
\*     camera_pos[i] = strtod(origin, &origin)
RECURSIVE OriginLoop(_, _, _, _)
OriginLoop(origin, c, i, pos) ==
    IF c <= Len(origin) /\ i < 3
    THEN OriginLoop(origin, Number(origin, c).end, i + 1,
                    [pos EXCEPT ![i + 1] = Number(origin, c).val * LS])
    ELSE pos

\* variant: the camera is not raised
SpawnEyeKept(pos) == pos

\* camera_pos[2] += 60
SpawnEye(pos) == [pos EXCEPT ![3] = @ + 60 * LS]

\* init_spawn(): camera_pos and camera_angle after the call
init_spawn(ents, pos, angle) ==
    LET spawn == entity_by_classname(ents, Text.spawn)
        a == entity_get(The(spawn), Text.angle)
        o == entity_get(The(spawn), Text.origin)
    IN  IF spawn = {}
        THEN [pos |-> pos, angle |-> angle]
        ELSE [pos |-> SpawnEye(IF o = {} THEN pos
                               ELSE OriginLoop(The(o), 1, 0, pos)),
              angle |-> IF a = {} THEN angle
                        ELSE [angle EXCEPT ![1] = radians(atoi(The(a)))]]

(***************************************************************************)
(* Specification Spec: the program, from main() to its exit                *)
(***************************************************************************)
MaxTicks == 2

\* frame times the host loop measures, in milliseconds
FrameMs == { 250 }

\* mouse travel per frame, in quarter turns of yaw
LookDXs == { 0 }

Dirents(planes_off, planes_len) ==
    [i \in 1 .. N_LUMPS |->
        IF i = 3 THEN [offset |-> planes_off, length |-> planes_len]
        ELSE [offset |-> HeaderSize, length |-> 0]]

GoodImage ==
    [readable |-> TRUE, size |-> 4096, magic |-> "IBSP", version |-> 46,
     dirents |-> Dirents(HeaderSize, 16 * n_planes)]

TruncatedImage ==
    [readable |-> TRUE, size |-> 100, magic |-> "IBSP", version |-> 46,
     dirents |-> Dirents(HeaderSize, 0)]

StartImages == { GoodImage, TruncatedImage }

\* camera positions init_spawn can leave: the origin when the map has no
\* spawn entity, else the entity's origin raised by 60
SpawnSet ==
    { zero3,
      << 100 * LS, 0, 24 * LS + SURF_CLIP_EPSILON >>,
      << -200 * LS, 0, 24 * LS + SURF_CLIP_EPSILON >>,
      << 16 * LS, 16 * LS, 100 * LS >> }

\* values an unwritten work.plane can hold: whatever the stack slot held,
\* sampled here as null, the floor's plane and a plane of the wall
GarbagePlanes == { NULL, 0, 13 }

NoImage == [readable |-> FALSE, size |-> 0, magic |-> "", version |-> 0,
            dirents |-> Dirents(0, 0)]

NotLoaded == [ret |-> -1, views |-> << >>]

NoSlide ==
    [pos |-> zero3, velocity |-> zero3, end_velocity |-> zero3,
     planes |-> << >>, time_left |-> 0, ret |-> "none", n_traces |-> 0,
     n_bumps |-> 0, fracs |-> << >>, times |-> << >>, unset |-> FALSE,
     ends |-> << >>, poss |-> << >>]

NoTree == [nodes |-> << >>, n_leaves |-> 0]

NoVis == [n_vecs |-> 0, sz_vecs |-> 0, vecs |-> << >>]

NoQuery ==
    [kind |-> "none", tree |-> NoTree, pos |-> zero3, vis |-> NoVis,
     from |-> 0, target |-> 0, lump |-> << >>]

\* locals and result of a query that has not run: index is find_leaf's index
\* (the byte index in cluster_visible), visited the nodes it has been at,
\* entities the global of that name
NoResult ==
    [index |-> 0, visited |-> {}, twice |-> FALSE, oob |-> FALSE,
     ret |-> -1, fault |-> FALSE, read |-> FALSE, entities |-> << >>]

QueryIdle == qargs = NoQuery /\ qret = NoResult

\* the globals as the C runtime initialises them
PlayerInit ==
    /\ running = 1
    /\ delta_time = 0
    /\ camera_pos = zero3
    /\ camera_angle = << 0, 0 >>
    /\ velocity = zero3
    /\ noclip = FALSE
    /\ movement = {}
    /\ wishdir = zero3
    /\ wishlook = << 0, 0 >>
    /\ ground_normal = NULL
    /\ direction = zero3
    /\ wishspeed = 0
    /\ base_wishspeed = 0
    /\ exit_status = -1
    /\ n_ticks = 0
    /\ jump_hist = "none"
    /\ used_wishspeed = -1
    /\ last_slide = NoSlide

Init ==
    /\ pc = "init"
    /\ PlayerInit
    /\ image = NoImage
    /\ load_ret = NotLoaded
    /\ targs = [start |-> zero3, end |-> zero3, mins |-> zero3, maxs |-> zero3]
    /\ work = IdleWork
    /\ QueryIdle

\* parse_args and init_map: exit(1) without a map argument or a loadable map
Start ==
    /\ pc = "init"
    /\ \E has_map \in BOOLEAN, img \in StartImages, sp \in SpawnSet :
        IF ~has_map
        THEN /\ pc' = "exit"
             /\ exit_status' = 1
             /\ UNCHANGED <<camera_pos, image, load_ret>>
        ELSE /\ image' = img
             /\ load_ret' = bsp_load(img)
             /\ IF load_ret'.ret = 0
                THEN pc' = "exit" /\ exit_status' = 1 /\ UNCHANGED camera_pos
                ELSE pc' = "loop" /\ camera_pos' = sp /\ UNCHANGED exit_status
    /\ UNCHANGED <<running, delta_time, camera_angle, velocity, noclip,
                   movement, wishdir, wishlook, ground_normal, direction,
                   wishspeed, base_wishspeed, n_ticks, jump_hist,
                   used_wishspeed, last_slide, trace_vars,
                   query_vars>>

\* while (running): measure the frame, read the mouse
BeginFrame ==
    /\ pc = "loop"
    /\ running = 1
    /\ n_ticks < MaxTicks
    /\ \E ms \in FrameMs, dx \in LookDXs :
        /\ delta_time' = (ms * US) \div 1000
        /\ wishlook' = << dx, 0 >>
    /\ pc' = "poll"
    /\ UNCHANGED <<running, camera_pos, camera_angle, velocity, noclip,
                   movement, wishdir, ground_normal, direction, wishspeed,
                   base_wishspeed, exit_status, n_ticks, jump_hist,
                   used_wishspeed, last_slide, load_vars, trace_vars,
                   query_vars>>

\* while (running) fails: return 0
ExitLoop ==
    /\ pc = "loop"
    /\ running = 0
    /\ pc' = "exit"
    /\ exit_status' = 0
    /\ UNCHANGED <<running, delta_time, camera_pos, camera_angle, velocity,
                   noclip, movement, wishdir, wishlook, ground_normal,
                   direction, wishspeed, base_wishspeed, n_ticks, jump_hist,
                   used_wishspeed, last_slide, load_vars, trace_vars,
                   query_vars>>

KeyDown(sym, repeat) == [type |-> "KEYDOWN", sym |-> sym, repeat |-> repeat]

KeyUp(sym) == [type |-> "KEYUP", sym |-> sym, repeat |-> 0]

Other(type, button) == [type |-> type, sym |-> button, repeat |-> 0]

\* a jump-press event: non-repeat space key-down or right mouse button down
IsJumpPress(e) ==
    \/ e.type = "KEYDOWN" /\ e.repeat = 0 /\ e.sym = "space"
    \/ e.type = "MOUSEBUTTONDOWN" /\ e.sym = "right"

IsJumpRelease(e) ==
    \/ e.type = "KEYUP" /\ e.sym = "space"
    \/ e.type = "MOUSEBUTTONUP" /\ e.sym = "right"

IsQuit(e) ==
    \/ e.type = "QUIT"
    \/ e.type = "KEYDOWN" /\ e.repeat = 0 /\ e.sym = "escape"
    \/ e.type = "KEYUP" /\ e.sym = "escape"

\* variant: a repeated key-down is handled like a first one
HandleWishdirRepeats(wd, e) ==
    IF e.type = "KEYDOWN"
    THEN CASE e.sym = "w" -> [wd EXCEPT ![1] = cl_forwardspeed]
           [] e.sym = "s" -> [wd EXCEPT ![1] = -cl_forwardspeed]
           [] e.sym = "a" -> [wd EXCEPT ![2] = cl_sidespeed]
           [] e.sym = "d" -> [wd EXCEPT ![2] = -cl_sidespeed]
           [] OTHER -> wd
    ELSE IF e.type = "KEYUP"
    THEN CASE e.sym \in {"w", "s"} -> [wd EXCEPT ![1] = 0]
           [] e.sym \in {"a", "d"} -> [wd EXCEPT ![2] = 0]
           [] OTHER -> wd
    ELSE wd

\* handle(): wishdir after the event
HandleWishdir(wd, e) ==
    IF e.type = "KEYDOWN" /\ e.repeat = 0
    THEN CASE e.sym = "w" -> [wd EXCEPT ![1] = cl_forwardspeed]
           [] e.sym = "s" -> [wd EXCEPT ![1] = -cl_forwardspeed]
           [] e.sym = "a" -> [wd EXCEPT ![2] = cl_sidespeed]
           [] e.sym = "d" -> [wd EXCEPT ![2] = -cl_sidespeed]
           [] OTHER -> wd
    ELSE IF e.type = "KEYUP"
    THEN CASE e.sym \in {"w", "s"} -> [wd EXCEPT ![1] = 0]
           [] e.sym \in {"a", "d"} -> [wd EXCEPT ![2] = 0]
           [] OTHER -> wd
    ELSE wd

\* handle(): movement after the event
HandleMovement(mv, e) ==
    IF IsJumpPress(e) THEN mv \cup {"JUMP"}
    ELSE IF IsJumpRelease(e) THEN mv \ {"JUMP"}
    ELSE mv

\* handle(e), for one event of the poll loop
Handle(e) ==
    /\ pc = "poll"
    /\ running' = IF IsQuit(e) THEN 0 ELSE running
    /\ wishdir' = HandleWishdir(wishdir, e)
    /\ noclip' = IF e.type = "KEYDOWN" /\ e.repeat = 0 /\ e.sym = "f"
                 THEN ~noclip ELSE noclip
    /\ movement' = HandleMovement(movement, e)
    /\ jump_hist' = IF IsJumpPress(e) THEN "pressed"
                    ELSE IF IsJumpRelease(e) /\ jump_hist = "fired"
                    THEN "fired_released"
                    ELSE jump_hist
    /\ UNCHANGED <<pc, delta_time, camera_pos, camera_angle, velocity,
                   wishlook, ground_normal, direction, wishspeed,
                   base_wishspeed, exit_status, n_ticks, used_wishspeed,
                   last_slide, load_vars, trace_vars,
                   query_vars>>

\* SDL_PollEvent returned 0: tick() starts
EndPoll ==
    /\ pc = "poll"
    /\ pc' = "trace_ground"
    /\ UNCHANGED <<player_vars, load_vars, trace_vars,
                   query_vars>>

\* trace_ground(): AIRBORNE is the MOVEMENT_JUMPING bit
GroundMovement(mv, w) ==
    IF w.frac = US \/ "JUMP_THIS_FRAME" \in mv
    THEN mv \cup {"JUMPING"}
    ELSE mv \ {"JUMPING"}

\* the values ground_normal can take after trace_ground(): work.plane->normal
\* is an address computed from work.plane, which the trace may have left
\* unwritten
GroundNormals(mv, w) ==
    IF w.frac = US \/ "JUMP_THIS_FRAME" \in mv THEN { NULL }
    ELSE IF w.plane = UNSET THEN GarbagePlanes
    ELSE { w.plane }

GroundTrace(pos) ==
    trace(pos, << pos[1], pos[2], pos[3] - GroundTraceDepth >>,
          player_mins, player_maxs)

TraceGround ==
    /\ pc = "trace_ground"
    /\ \E w \in {GroundTrace(camera_pos)} :
           /\ movement' = GroundMovement(movement, w)
           /\ ground_normal' \in GroundNormals(movement, w)
    /\ pc' = "apply_look"
    /\ UNCHANGED <<running, delta_time, camera_pos, camera_angle, velocity,
                   noclip, wishdir, wishlook, direction, wishspeed,
                   base_wishspeed, exit_status, n_ticks, jump_hist,
                   used_wishspeed, last_slide, load_vars, trace_vars,
                   query_vars>>

\* apply_inputs(): camera look, rotation of wishdir, direction and wishspeed
ApplyLook ==
    /\ pc = "apply_look"
    /\ camera_angle' = << clamp_angle(camera_angle[1] + wishlook[1]),
                          clamp_angle(camera_angle[2] + wishlook[2]) >>
    /\ \E d \in {Rotate(wishdir, camera_angle', noclip)} :
         \E ws \in {mag3(d)} :
           /\ direction' = IF ws >= 1 THEN Div3(d, ws) ELSE d
           /\ wishspeed' = Min(ws, sv_max_speed)
    /\ pc' = "apply_jump"
    /\ UNCHANGED <<running, delta_time, camera_pos, velocity, noclip,
                   movement, wishdir, wishlook, ground_normal,
                   base_wishspeed, exit_status, n_ticks, jump_hist,
                   used_wishspeed, last_slide, load_vars, trace_vars,
                   query_vars>>

ApplyJump ==
    /\ pc = "apply_jump"
    /\ LET r == apply_jump(movement, velocity, noclip)
       IN  /\ movement' = r.movement
           /\ velocity' = r.velocity
    /\ jump_hist' = IF JumpFires(movement, noclip) THEN "fired" ELSE jump_hist
    /\ pc' = "apply_friction"
    /\ UNCHANGED <<running, delta_time, camera_pos, camera_angle, noclip,
                   wishdir, wishlook, ground_normal, direction, wishspeed,
                   base_wishspeed, exit_status, n_ticks, used_wishspeed,
                   last_slide, load_vars, trace_vars,
                   query_vars>>

ApplyFriction ==
    /\ pc = "apply_friction"
    /\ velocity' = apply_friction(movement, velocity, noclip, delta_time)
    /\ pc' = "apply_acceleration"
    /\ UNCHANGED <<running, delta_time, camera_pos, camera_angle, noclip,
                   movement, wishdir, wishlook, ground_normal, direction,
                   wishspeed, base_wishspeed, exit_status, n_ticks, jump_hist,
                   used_wishspeed, last_slide, load_vars, trace_vars,
                   query_vars>>

\* apply_inputs(): selection of the acceleration, then apply_acceleration()
ApplyAcceleration ==
    /\ pc = "apply_acceleration"
    /\ base_wishspeed' = wishspeed
    /\ wishspeed' = SelectWishspeed(movement, noclip, wishdir, wishspeed)
    /\ used_wishspeed' = AccelWishspeed(movement, noclip, wishspeed')
    /\ velocity' = apply_acceleration(movement, velocity, noclip, direction,
                       wishspeed',
                       SelectAccel(movement, velocity, noclip, wishdir,
                                   direction),
                       delta_time)
    /\ pc' = "apply_air_control"
    /\ UNCHANGED <<running, delta_time, camera_pos, camera_angle, noclip,
                   movement, wishdir, wishlook, ground_normal, direction,
                   exit_status, n_ticks, jump_hist, last_slide, load_vars,
                   trace_vars,
                   query_vars>>

ApplyAirControl ==
    /\ pc = "apply_air_control"
    /\ velocity' = apply_air_control(velocity, wishdir, direction,
                                     base_wishspeed)
    /\ pc' = "integrate"
    /\ UNCHANGED <<running, delta_time, camera_pos, camera_angle, noclip,
                   movement, wishdir, wishlook, ground_normal, direction,
                   wishspeed, base_wishspeed, exit_status, n_ticks, jump_hist,
                   used_wishspeed, last_slide, load_vars, trace_vars,
                   query_vars>>

\* update(): slide, or the free move of noclip
\* a read through a null work.plane inside slide ends the process
Integrate ==
    /\ pc = "integrate"
    /\ IF noclip
       THEN /\ camera_pos' = Add3(camera_pos, Scale3(velocity, delta_time))
            /\ pc' = "clear_jump"
            /\ UNCHANGED <<velocity, last_slide>>
       ELSE \E g \in GarbagePlanes :
              \E st \in {slide(camera_pos, velocity, ground_normal,
                               "JUMPING" \in movement, delta_time, g)} :
                  /\ camera_pos' = st.pos
                  /\ velocity' = st.velocity
                  /\ last_slide' = st
                  /\ pc' = IF st.ret = "crash" THEN "crash" ELSE "clear_jump"
    /\ UNCHANGED <<running, delta_time, camera_angle, noclip, movement,
                   wishdir, wishlook, ground_normal, direction, wishspeed,
                   base_wishspeed, exit_status, n_ticks, jump_hist,
                   used_wishspeed, load_vars, trace_vars,
                   query_vars>>

\* faulty variant of EndOfTick: MOVEMENT_JUMP_THIS_FRAME survives the tick
EndOfTickKeepsFlag(mv) == mv

\* movement flags at the end of update()
EndOfTick(mv) == mv \ {"JUMP_THIS_FRAME"}

ClearJump ==
    /\ pc = "clear_jump"
    /\ movement' = EndOfTick(movement)
    /\ n_ticks' = n_ticks + 1
    /\ direction' = zero3
    /\ wishspeed' = 0
    /\ base_wishspeed' = 0
    /\ used_wishspeed' = -1
    /\ pc' = "loop"
    /\ UNCHANGED <<running, delta_time, camera_pos, camera_angle, velocity,
                   noclip, wishdir, wishlook, ground_normal, exit_status,
                   jump_hist, last_slide, load_vars, trace_vars,
                   query_vars>>

\* the events the host delivers while the player moves about
PlayEvents ==
    { KeyDown("w", 0), KeyDown("a", 0), KeyDown("f", 0), KeyDown("space", 0),
      KeyDown("space", 1), KeyUp("space"),
      Other("MOUSEBUTTONDOWN", "right"), Other("QUIT", "") }

Next ==
    \/ Start
    \/ BeginFrame
    \/ ExitLoop
    \/ \E e \in PlayEvents : Handle(e)
    \/ EndPoll
    \/ TraceGround
    \/ ApplyLook
    \/ ApplyJump
    \/ ApplyFriction
    \/ ApplyAcceleration
    \/ ApplyAirControl
    \/ Integrate
    \/ ClearJump

Spec == Init /\ [][Next]_vars

(***************************************************************************)
(* Specification SpecTrace: one trace() call on arbitrary arguments       *)
(***************************************************************************)
TraceXs == { -8, 16, 100, 144 }

TraceYs == { 16, 300 }

TraceZs == { -32, 16, 24, 56, 100 }

TraceDeltas ==
    { <<0, 0, 0>>, <<0, 0, -100>>, <<0, 0, -8>>, <<0, 0, 40>>,
      <<60, 0, 0>>, <<-60, 0, -20>>, <<0, -300, 0>> }

TraceBoxes == { <<zero3, zero3>>, <<player_mins, player_maxs>> }

V3(x, y, z) == << x * LS, y * LS, z * LS >>

InitTrace ==
    /\ \E x \in TraceXs, y \in TraceYs, z \in TraceZs,
          d \in TraceDeltas, b \in TraceBoxes :
            targs = [start |-> V3(x, y, z),
                     end |-> Add3(V3(x, y, z), V3(d[1], d[2], d[3])),
                     mins |-> b[1], maxs |-> b[2]]
    /\ work = IdleWork
    /\ pc = "trace_call"
    /\ PlayerInit
    /\ image = NoImage
    /\ load_ret = NotLoaded
    /\ QueryIdle

DoTrace ==
    /\ pc = "trace_call"
    /\ work' = trace(targs.start, targs.end, targs.mins, targs.maxs)
    /\ pc' = "trace_ret"
    /\ UNCHANGED <<targs, player_vars, load_vars, query_vars>>

NextTrace == DoTrace

SpecTrace == InitTrace /\ [][NextTrace]_vars

(***************************************************************************)
(* Specification SpecLoad: one bsp_load() call on an arbitrary file image  *)
(***************************************************************************)
LoadSizes == { 0, 100, HeaderSize - 1, HeaderSize, 4096 }

LoadOffsets == { HeaderSize, 4000, 5000 }

LoadLengths == { 0, 16, 24, 160 }

InitLoad ==
    /\ pc = "load_call"
    /\ \E r \in BOOLEAN, sz \in LoadSizes, m \in {"IBSP", "IBSQ"},
          v \in {46, 47}, o \in LoadOffsets, l \in LoadLengths :
            image = [readable |-> r, size |-> sz, magic |-> m, version |-> v,
                     dirents |-> Dirents(o, l)]
    /\ load_ret = NotLoaded
    /\ PlayerInit
    /\ targs = [start |-> zero3, end |-> zero3, mins |-> zero3, maxs |-> zero3]
    /\ work = IdleWork
    /\ QueryIdle

DoLoad ==
    /\ pc = "load_call"
    /\ load_ret' = bsp_load(image)
    /\ pc' = "load_ret"
    /\ UNCHANGED <<image, player_vars, trace_vars,
                   query_vars>>

NextLoad == DoLoad

SpecLoad == InitLoad /\ [][NextLoad]_vars

(***************************************************************************)
(* Specification SpecSlide: one slide() call, one pass of the bump loop    *)
(* per step                                                                *)
(***************************************************************************)
SlidePositions ==
    { << x * LS, 16 * LS, z >> :
        x \in { -200, 56, 100, 112 }, z \in { 772, 24 * LS + 16, 200 * LS } }
        \cup { << -15 * LS, -15 * LS, 772 >> }

SlideVelocities ==
    { << x * LS, y * LS, z * LS >> :
        x \in { 0, 320, -320 }, y \in { 0, 100 }, z \in { 0, 270, -400 } }

SlideTimes == { US \div 4, US }

\* the globals as update() passes them to slide(): movement and
\* ground_normal as trace_ground() left them at camera_pos, velocity as
\* apply_inputs() left it
InitSlide ==
    /\ pc = "slide_entry"
    /\ running = 1
    /\ delta_time \in SlideTimes
    /\ camera_pos \in SlidePositions
    /\ camera_angle = << 0, 0 >>
    /\ velocity \in SlideVelocities
    /\ noclip = FALSE
    /\ \E mv \in { {}, {"JUMP_THIS_FRAME"} } :
         \E w \in {GroundTrace(camera_pos)} :
           /\ movement = GroundMovement(mv, w)
           /\ ground_normal \in GroundNormals(mv, w)
    /\ wishdir = zero3
    /\ wishlook = << 0, 0 >>
    /\ direction = zero3
    /\ wishspeed = 0
    /\ base_wishspeed = 0
    /\ exit_status = -1
    /\ n_ticks = 0
    /\ jump_hist = "none"
    /\ used_wishspeed = -1
    /\ last_slide = NoSlide
    /\ image = NoImage
    /\ load_ret = NotLoaded
    /\ targs = [start |-> zero3, end |-> zero3, mins |-> zero3, maxs |-> zero3]
    /\ work = IdleWork
    /\ QueryIdle

SlideUnchanged ==
    UNCHANGED <<running, delta_time, camera_angle, noclip, movement, wishdir,
                wishlook, ground_normal, direction, wishspeed, base_wishspeed,
                exit_status, n_ticks, jump_hist, used_wishspeed, load_vars,
                trace_vars, query_vars>>

\* the statements before the bump loop
SlideEnter ==
    /\ pc = "slide_entry"
    /\ last_slide' = SlideEntry(camera_pos, velocity, ground_normal,
                                "JUMPING" \in movement, delta_time)
    /\ pc' = "slide_loop"
    /\ UNCHANGED <<camera_pos, velocity>>
    /\ SlideUnchanged

\* one pass of the bump loop: the trace and what follows it
SlideBump ==
    /\ pc = "slide_loop"
    /\ last_slide.n_traces < MAX_BUMPS
    /\ \E g \in GarbagePlanes :
         \E st \in {The({ Bump(last_slide, last_slide.n_traces, g, w) :
                          w \in {The({ trace(last_slide.pos, end, player_mins,
                                             player_maxs) :
                                       end \in {Add3(Scale3(last_slide.velocity,
                                                            last_slide.time_left),
                                                     last_slide.pos)} })} })} :
           /\ last_slide' = st
           /\ pc' = CASE st.ret = "loop" -> "slide_loop"
                      [] st.ret = "crash" -> "crash"
                      [] OTHER -> "slide_exit"
    /\ UNCHANGED <<camera_pos, velocity>>
    /\ SlideUnchanged

\* the loop condition fails after MAX_BUMPS passes
SlideLoopEnd ==
    /\ pc = "slide_loop"
    /\ last_slide.n_traces >= MAX_BUMPS
    /\ last_slide' = [last_slide EXCEPT !.ret = "done",
                                        !.n_bumps = last_slide.n_traces]
    /\ pc' = "slide_exit"
    /\ UNCHANGED <<camera_pos, velocity>>
    /\ SlideUnchanged

\* slide returns: camera_pos and velocity hold what the call made of them
SlideReturn ==
    /\ pc = "slide_exit"
    /\ \E st \in {SlideExit(last_slide, "JUMPING" \in movement)} :
         /\ last_slide' = st
         /\ camera_pos' = st.pos
         /\ velocity' = st.velocity
    /\ pc' = "slide_ret"
    /\ SlideUnchanged

NextSlide == SlideEnter \/ SlideBump \/ SlideLoopEnd \/ SlideReturn

SpecSlide == InitSlide /\ [][NextSlide]_vars

(***************************************************************************)
(* Specification SpecSpawn: parse_entities() and init_spawn() of init_map  *)
(* on an entity lump                                                       *)
(***************************************************************************)
StrTok(str) == [kind |-> "str", str |-> str]

Brace(c) == [kind |-> c, str |-> << >>]

\* field lists of the spawn entity: without the key, or with one of some
\* values
OriginFields ==
    { << >> } \cup
    { << StrTok(Text.origin), StrTok(v) >> :
        v \in { << "1", "0", "0", " ", "0", " ", "2", "4" >>,
                << "-", "8", " ", "1", "6" >>,
                << "u", "p" >>,
                << >> } }

AngleFields ==
    { << >> } \cup
    { << StrTok(Text.angle), StrTok(v) >> :
        v \in { << "9", "0" >>, << "-", "1", "8", "0" >>, << "x" >> } }

\* well-formed lumps: worldspawn, then a player spawn or a light
WholeLumps ==
    { << Brace("{"), StrTok(Text.classname),
         StrTok(<< "w", "o", "r", "l", "d" >>), Brace("}"), Brace("{"),
         StrTok(Text.classname), StrTok(c) >> \o o \o a \o << Brace("}") >> :
        c \in { Text.spawn, << "l", "i", "g", "h", "t" >> },
        o \in OriginFields, a \in AngleFields }

\* a lump, a lump cut short, a lump with one token missing
SpawnLumps ==
    UNION { { SubSeq(l, 1, n) : n \in 0 .. Len(l) } \cup
            { SubSeq(l, 1, n - 1) \o SubSeq(l, n + 1, Len(l)) :
                n \in 1 .. Len(l) } : l \in WholeLumps }

InitSpawn ==
    /\ pc = "parse_entities"
    /\ \E l \in SpawnLumps :
         qargs = [NoQuery EXCEPT !.kind = "spawn", !.lump = l]
    /\ qret = NoResult
    /\ PlayerInit
    /\ image = NoImage
    /\ load_ret = NotLoaded
    /\ targs = [start |-> zero3, end |-> zero3, mins |-> zero3, maxs |-> zero3]
    /\ work = IdleWork

DoParseEntities ==
    /\ pc = "parse_entities"
    /\ qret' = [qret EXCEPT !.entities = parse_entities(qargs.lump)]
    /\ pc' = "init_spawn"
    /\ UNCHANGED <<qargs, player_vars, load_vars, trace_vars>>

DoInitSpawn ==
    /\ pc = "init_spawn"
    /\ \E r \in {init_spawn(qret.entities, camera_pos, camera_angle)} :
         /\ camera_pos' = r.pos
         /\ camera_angle' = r.angle
    /\ pc' = "spawn_done"
    /\ UNCHANGED <<running, delta_time, velocity, noclip, movement, wishdir,
                   wishlook, ground_normal, direction, wishspeed,
                   base_wishspeed, exit_status, n_ticks, jump_hist,
                   used_wishspeed, last_slide, load_vars, trace_vars,
                   query_vars>>

NextSpawn == DoParseEntities \/ DoInitSpawn

SpecSpawn == InitSpawn /\ [][NextSpawn]_vars

(***************************************************************************)
(* Specification SpecPlanes: one pass of the loop of init_planes() on a    *)
(* plane of the plane lump, whose normal is whatever the file holds        *)
(***************************************************************************)
NormalComponents == { -US, -(3 * US) \div 5, 0, (3 * US) \div 5,
                      (4 * US) \div 5, US }

InitPlane ==
    /\ pc = "init_planes"
    /\ \E x \in NormalComponents, y \in NormalComponents,
          z \in NormalComponents :
         qargs = [NoQuery EXCEPT !.kind = "plane", !.pos = << x, y, z >>]
    /\ qret = NoResult
    /\ PlayerInit
    /\ image = NoImage
    /\ load_ret = NotLoaded
    /\ targs = [start |-> zero3, end |-> zero3, mins |-> zero3, maxs |-> zero3]
    /\ work = IdleWork

\* planes[i].signbits (kept in qret.index) and planes[i].type (in qret.ret)
DoInitPlane ==
    /\ pc = "init_planes"
    /\ qret' = [qret EXCEPT !.index = signbits_for_normal(qargs.pos),
                            !.ret = plane_type_for_normal(qargs.pos)]
    /\ pc' = "planes_done"
    /\ UNCHANGED <<qargs, player_vars, load_vars, trace_vars>>

NextPlanes == DoInitPlane

SpecPlanes == InitPlane /\ [][NextPlanes]_vars

(***************************************************************************)
(* Specification SpecQuery: one bsp_find_leaf() or bsp_cluster_visible()   *)
(* call.  The loop of bsp_find_leaf runs one iteration per step; it is     *)
(* sequential code, so an iteration that can run does run (weak fairness). *)
(***************************************************************************)
Node(plane, c0, c1) == [plane |-> plane, child |-> <<c0, c1>>]

\* the node trees queried: the map's; one whose children precede their
\* parent in the array; a map without nodes; one with a child index past the
\* node array; one with a cycle
QueryTrees ==
    { [nodes |-> map_nodes, n_leaves |-> Len(map_leaves)],
      [nodes |-> << Node(0, 2, -1), Node(16, -2, -3), Node(15, 1, -4) >>,
       n_leaves |-> Len(map_leaves)],
      NoTree,
      [nodes |-> << Node(0, 5, -1) >>, n_leaves |-> Len(map_leaves)],
      [nodes |-> << Node(0, 1, -1), Node(15, 0, -2) >>,
       n_leaves |-> Len(map_leaves)] }

QueryXs == { -8, 16, 100, 144 }

QueryYs == { 16, 300, -500 }

QueryZs == { -32, 24 }

\* byte i of the larger bit block
VisByte(i) == (i * 37 + 11) % 256

\* a 2-cluster block with 2-byte vectors, a 10-cluster block with 2-byte vectors, and
\* a map without visdata
QueryVis ==
    { [n_vecs |-> 2, sz_vecs |-> 2, vecs |-> << 3, 0, 2, 0 >>],
      [n_vecs |-> 10, sz_vecs |-> 2, vecs |-> [i \in 1 .. 20 |-> VisByte(i)]],
      NoVis }

QueryClusters == { -8, -1, 0, 1, 8, 9, 20 }

InitQuery ==
    /\ \/ /\ \E t \in QueryTrees, x \in QueryXs, y \in QueryYs,
                z \in QueryZs :
                qargs = [NoQuery EXCEPT !.kind = "leaf", !.tree = t,
                                        !.pos = << x * LS, y * LS, z * LS >>]
          /\ pc = "leaf_loop"
       \/ /\ \E v \in QueryVis, f \in QueryClusters, t \in QueryClusters :
                qargs = [NoQuery EXCEPT !.kind = "vis", !.vis = v,
                                        !.from = f, !.target = t]
          /\ pc = "vis_call"
    /\ qret = NoResult
    /\ PlayerInit
    /\ image = NoImage
    /\ load_ret = NotLoaded
    /\ targs = [start |-> zero3, end |-> zero3, mins |-> zero3, maxs |-> zero3]
    /\ work = IdleWork

\* one iteration of the while loop on a node of the array
LeafStep ==
    /\ pc = "leaf_loop"
    /\ qret.index >= 0
    /\ qret.index < Len(qargs.tree.nodes)
    /\ \E node \in {At(qargs.tree.nodes, qret.index)} :
         qret' = [qret EXCEPT
                    !.index = LeafChild(node, LeafDistance(node, qargs.pos)),
                    !.visited = @ \cup {qret.index},
                    !.twice = @ \/ qret.index \in qret.visited]
    /\ pc' = pc
    /\ UNCHANGED <<qargs, player_vars, load_vars, trace_vars>>

\* one iteration on an index past the node array: the read of
\* file->nodes[index] is undefined, it faults or yields some child
LeafStray ==
    /\ pc = "leaf_loop"
    /\ qret.index >= Len(qargs.tree.nodes)
    /\ \/ /\ qret' = [qret EXCEPT !.oob = TRUE, !.fault = TRUE]
          /\ pc' = "query_fault"
       \/ /\ \E c \in GarbageChildren :
                qret' = [qret EXCEPT !.oob = TRUE, !.index = c]
          /\ pc' = pc
    /\ UNCHANGED <<qargs, player_vars, load_vars, trace_vars>>

\* the loop ends on a negative index: return (-index) - 1
LeafReturn ==
    /\ pc = "leaf_loop"
    /\ qret.index < 0
    /\ qret' = [qret EXCEPT !.ret = LeafOfIndex(qret.index)]
    /\ pc' = "leaf_ret"
    /\ UNCHANGED <<qargs, player_vars, load_vars, trace_vars>>

DoVisible ==
    /\ pc = "vis_call"
    /\ \E o \in bsp_cluster_visible(qargs.vis, qargs.from, qargs.target) :
         /\ qret' = [qret EXCEPT
                       !.index = VisIndex(qargs.vis, qargs.from, qargs.target),
                       !.read = TRUE, !.ret = o.ret, !.fault = o.fault]
         /\ pc' = IF o.fault THEN "query_fault" ELSE "vis_ret"
    /\ UNCHANGED <<qargs, player_vars, load_vars, trace_vars>>

NextQuery == LeafStep \/ LeafStray \/ LeafReturn \/ DoVisible

SpecQuery == InitQuery /\ [][NextQuery]_vars /\ WF_vars(NextQuery)

(***************************************************************************)
(* Specification SpecLeaf: the first trace_leaf() call of a trace, one     *)
(* pass of its loop per step, on a leaf whose brush list is whatever the   *)
(* leafbrush lump holds (qargs.lump; qret.index is the loop counter i)     *)
(***************************************************************************)
LeafStarts == { V3(16, 16, 16), V3(16, 16, 100), V3(100, 16, 16),
                V3(-8, 16, 56), V3(144, 16, 24) }

BrushIndices == 0 .. (Len(map_brushes) - 1)

\* brush lists of one or two different brushes
LeafLists ==
    { << a >> : a \in BrushIndices }
        \cup { l \in { << a, b >> : a \in BrushIndices, b \in BrushIndices } :
                   l[1] # l[2] }

InitLeaf ==
    /\ pc = "tl_loop"
    /\ \E s \in LeafStarts, d \in TraceDeltas, b \in TraceBoxes :
         /\ targs = [start |-> s, end |-> Add3(s, V3(d[1], d[2], d[3])),
                     mins |-> b[1], maxs |-> b[2]]
         /\ work = TraceStart(targs.start, targs.end, targs.mins, targs.maxs)
    /\ \E l \in LeafLists :
         qargs = [NoQuery EXCEPT !.kind = "leaf", !.lump = l]
    /\ qret = NoResult
    /\ PlayerInit
    /\ image = NoImage
    /\ load_ret = NotLoaded

\* the brush the loop is at, and whether trace_leaf traces against it
LeafBrushAt(i) == At(map_brushes, At(qargs.lump, i))

LeafBrushTested(i) ==
    /\ LeafBrushAt(i).n_brushsides # 0
    /\ (At(map_textures, LeafBrushAt(i).texture).contents % 2) = CONTENTS_SOLID

\* a pass over a brush without sides or without solid contents
LeafSkipBrush ==
    /\ pc = "tl_loop"
    /\ qret.index < Len(qargs.lump)
    /\ ~LeafBrushTested(qret.index)
    /\ qret' = [qret EXCEPT !.index = @ + 1]
    /\ UNCHANGED <<pc, qargs, work, targs, player_vars, load_vars>>

\* a pass that calls trace_brush, and returns when frac has become 0
LeafTraceBrush ==
    /\ pc = "tl_loop"
    /\ qret.index < Len(qargs.lump)
    /\ LeafBrushTested(qret.index)
    /\ \E w1 \in {trace_brush(work, LeafBrushAt(qret.index))} :
         /\ work' = w1
         /\ pc' = IF w1.frac = 0 THEN "tl_ret" ELSE "tl_loop"
    /\ qret' = [qret EXCEPT !.index = @ + 1]
    /\ UNCHANGED <<qargs, targs, player_vars, load_vars>>

\* the loop condition fails
LeafLoopEnd ==
    /\ pc = "tl_loop"
    /\ qret.index >= Len(qargs.lump)
    /\ pc' = "tl_ret"
    /\ UNCHANGED <<qargs, qret, work, targs, player_vars, load_vars>>

NextLeaf == LeafSkipBrush \/ LeafTraceBrush \/ LeafLoopEnd

SpecLeaf == InitLeaf /\ [][NextLeaf]_vars

(***************************************************************************)
(* Specification SpecInputs: one apply_inputs() call, entered with the     *)
(* globals as earlier ticks and the event handler may have left them       *)
(***************************************************************************)
\* delta_time: 0.01, 0.1 and 0.25 seconds
InputTimes == { US \div 100, US \div 10, US \div 4 }

InputVelocities ==
    { << x, y, z >> :
        x \in { 0, 300 * LS, -50 * LS, LS \div 2 },
        y \in { 0, 100 * LS },
        z \in { 0, -100 * LS } }

InputWishdirs ==
    { << f * cl_forwardspeed, s * cl_sidespeed, 0 >> :
        f \in { -1, 0, 1 }, s \in { -1, 0, 1 } }

\* MOVEMENT_JUMP_THIS_FRAME is clear when update() calls apply_inputs()
InputMovements == SUBSET { "JUMP", "JUMPING" }

InitInputs ==
    /\ pc = "apply_look"
    /\ running = 1
    /\ delta_time \in InputTimes
    /\ camera_pos = zero3
    /\ camera_angle \in { << 0, 0 >>, << 1, 0 >> }
    /\ velocity \in InputVelocities
    /\ noclip \in BOOLEAN
    /\ movement \in InputMovements
    /\ wishdir \in InputWishdirs
    /\ wishlook = << 0, 0 >>
    /\ ground_normal = IF "JUMPING" \in movement THEN NULL ELSE 0
    /\ direction = zero3
    /\ wishspeed = 0
    /\ base_wishspeed = 0
    /\ exit_status = -1
    /\ n_ticks = 0
    /\ jump_hist = "none"
    /\ used_wishspeed = -1
    /\ last_slide = NoSlide
    /\ image = NoImage
    /\ load_ret = NotLoaded
    /\ targs = [start |-> zero3, end |-> zero3, mins |-> zero3, maxs |-> zero3]
    /\ work = IdleWork
    /\ QueryIdle

NextInputs ==
    \/ ApplyLook
    \/ ApplyJump
    \/ ApplyFriction
    \/ ApplyAcceleration
    \/ ApplyAirControl

SpecInputs == InitInputs /\ [][NextInputs]_vars

(***************************************************************************)
(* Specification SpecClip: one clip_velocity(velocity, normal, velocity,   *)
(* OVERCLIP) call, the normal (qargs.pos) that of a plane of the map       *)
(***************************************************************************)
ClipVelocities ==
    { << x * LS, y * LS, z * LS >> :
        x \in { 0, 100, -320, 1, 7 }, y \in { 0, 100, -33 },
        z \in { 0, 270, -400 } }

ClipNormals == { map_planes[i].normal : i \in 1 .. Len(map_planes) }

InitClip ==
    /\ pc = "clip_call"
    /\ PlayerInit
    /\ image = NoImage
    /\ load_ret = NotLoaded
    /\ targs = [start |-> zero3, end |-> zero3, mins |-> zero3, maxs |-> zero3]
    /\ work = IdleWork
    /\ \E n \in ClipNormals :
         qargs = [NoQuery EXCEPT !.kind = "clip", !.pos = n]
    /\ qret = NoResult

\* the caller's velocity, as slide() has it when it clips
SetVelocity ==
    /\ pc = "clip_call"
    /\ velocity = zero3
    /\ velocity' \in ClipVelocities \ {zero3}
    /\ UNCHANGED <<pc, running, delta_time, camera_pos, camera_angle, noclip,
                   movement, wishdir, wishlook, ground_normal, direction,
                   wishspeed, base_wishspeed, exit_status, n_ticks, jump_hist,
                   used_wishspeed, last_slide, load_vars, trace_vars,
                   query_vars>>

DoClip ==
    /\ pc = "clip_call"
    /\ velocity' = clip_velocity(velocity, qargs.pos)
    /\ pc' = "clip_ret"
    /\ UNCHANGED <<running, delta_time, camera_pos, camera_angle, noclip,
                   movement, wishdir, wishlook, ground_normal, direction,
                   wishspeed, base_wishspeed, exit_status, n_ticks, jump_hist,
                   used_wishspeed, last_slide, load_vars, trace_vars,
                   query_vars>>

NextClip == SetVelocity \/ DoClip

SpecClip == InitClip /\ [][NextClip]_vars

(***************************************************************************)
(* Specification SpecKeys: handle() on the events of a poll loop, in any   *)
(* order and number; the globals handle() does not write stay as they were *)
(* constructed                                                             *)
(***************************************************************************)
MoveKeys == { "w", "s", "a", "d" }

KeyEvents ==
    { KeyDown(k, r) : k \in MoveKeys \cup { "f", "space", "escape" },
                      r \in { 0, 1 } }
        \cup { KeyUp(k) : k \in MoveKeys \cup { "f", "space" } }
        \cup { Other("MOUSEBUTTONDOWN", "right"),
               Other("MOUSEBUTTONUP", "right"),
               Other("MOUSEBUTTONDOWN", "left") }

InitKeys ==
    /\ pc = "poll"
    /\ PlayerInit
    /\ image = NoImage
    /\ load_ret = NotLoaded
    /\ targs = [start |-> zero3, end |-> zero3, mins |-> zero3, maxs |-> zero3]
    /\ work = IdleWork
    /\ QueryIdle

NextKeys == \E e \in KeyEvents : Handle(e)

SpecKeys == InitKeys /\ [][NextKeys]_vars

(***************************************************************************)
(* Specification SpecLex: parse_entities() on a NUL-terminated text, one   *)
(* lex_entities() call per step.  The text is the sequence of its          *)
(* characters; its terminating NUL is the byte at Len + 1, and Len + 2 is  *)
(* the first byte that does not belong to it.  qret holds the lexer        *)
(* (p, token_kind, str, the text with the NULs written into it) and the    *)
(* entities built so far                                                   *)
(***************************************************************************)
NUL == "NUL"

Quote == "\""

Blanks == { " " }

LexAlphabet == { "{", "}", Quote, "a", " " }

\* every text of up to MaxText characters
MaxText == 4

\* {"a" "a"}, two entities, and malformed longer texts: a key without value,
\* a missing closing brace, an unterminated string, a missing opening brace
LongTexts ==
    { << "{", Quote, "a", Quote, " ", Quote, "a", Quote, "}" >>,
      << "{", Quote, "a", Quote, Quote, "a", Quote, "}", "{", "}" >>,
      << "{", Quote, "a", Quote, "}", "{", "}" >>,
      << "{", Quote, "a", Quote, Quote, "a", Quote >>,
      << "{", Quote, "a", Quote, Quote, "a" >>,
      << "{", "}", Quote, "a", Quote, "}" >> }

LexTexts ==
    UNION { [1 .. n -> LexAlphabet] : n \in 0 .. MaxText } \cup LongTexts

\* *p for a p inside the text or at its terminating NUL
Byte(data, p) == IF p <= Len(data) THEN data[p] ELSE NUL

\* the goto again loop over white space
RECURSIVE SkipBlanks(_, _)
SkipBlanks(data, p) ==
    IF Byte(data, p) \in Blanks THEN SkipBlanks(data, p + 1) ELSE p

\* for (; *lex->p != '"'; ++lex->p) if (!*lex->p) break;
RECURSIVE StringEnd(_, _)
StringEnd(data, p) ==
    IF Byte(data, p) \in { Quote, NUL } THEN p ELSE StringEnd(data, p + 1)

\* lex_entities() with lex->p inside the text or at its NUL
lex_entities(lex) ==
    LET q == SkipBlanks(lex.data, lex.p)
        e == StringEnd(lex.data, q + 1)
    IN  IF Byte(lex.data, q) = Quote
        THEN [lex EXCEPT
                !.token_kind = "str",
                !.str = SubSeq(lex.data, q + 1, e - 1),
                !.p = IF Byte(lex.data, e) # NUL THEN e + 1 ELSE e,
                !.data = IF Byte(lex.data, e) # NUL
                         THEN [lex.data EXCEPT ![e] = NUL] ELSE lex.data]
        ELSE [lex EXCEPT
                !.token_kind = IF Byte(lex.data, q) = NUL THEN "eof"
                               ELSE Byte(lex.data, q),
                !.p = q + 1]

\* token kinds a byte outside the text can make the lexer return
GarbageKinds == { "eof", "{", "}", "str", "a" }

\* variant of ExpectLexes: the next token is read whatever the current one
ExpectLexesAlways(token_kind, kind) == TRUE

\* entities_expect(): the next token is read only when the current one is
\* the expected one
ExpectLexes(token_kind, kind) == token_kind = kind

\* a call of lex_entities on the lexer of base: inside the text it is
\* lex_entities(); with p past the terminating NUL it reads a byte that is
\* not the text's
LexCall(base, next_pc) ==
    IF qret.p <= Len(qret.data) + 1
    THEN \E l \in {lex_entities(base)} :
           /\ qret' = [l EXCEPT !.n_calls = @ + 1,
                                !.after_eof = @ \/ qret.eof_returned,
                                !.eof_returned = @ \/ l.token_kind = "eof"]
           /\ pc' = next_pc[l.token_kind = "str"]
    ELSE \E g \in GarbageKinds :
           /\ qret' = [base EXCEPT !.token_kind = g, !.beyond = TRUE,
                                   !.n_calls = @ + 1,
                                   !.after_eof = @ \/ qret.eof_returned]
           /\ pc' = "pe_undefined"

LexUnchanged == UNCHANGED <<qargs, player_vars, load_vars, trace_vars>>

InitLex ==
    /\ pc = "pe_start"
    /\ \E t \in LexTexts :
         /\ qargs = [NoQuery EXCEPT !.kind = "entities", !.lump = t]
         /\ qret = [p |-> 1, token_kind |-> "eof", str |-> << >>, data |-> t,
                    entities |-> << >>, fields |-> << >>, key |-> << >>,
                    n_calls |-> 0, eof_returned |-> FALSE,
                    after_eof |-> FALSE, beyond |-> FALSE]
    /\ PlayerInit
    /\ image = NoImage
    /\ load_ret = NotLoaded
    /\ targs = [start |-> zero3, end |-> zero3, mins |-> zero3, maxs |-> zero3]
    /\ work = IdleWork

\* lex.p = data; lex_entities(&lex);
PeFirstToken ==
    /\ pc = "pe_start"
    /\ LexCall(qret, [b \in BOOLEAN |-> "pe_open"])
    /\ LexUnchanged

\* entities_expect(&lex, '{') at the top of the do loop
PeOpen ==
    /\ pc = "pe_open"
    /\ IF ExpectLexes(qret.token_kind, "{")
       THEN LexCall([qret EXCEPT !.fields = << >>],
                    [b \in BOOLEAN |-> "pe_fields"])
       ELSE pc' = "pe_ret" /\ UNCHANGED qret
    /\ LexUnchanged

\* a pass of the while loop up to the test of the value token
PeKey ==
    /\ pc = "pe_fields"
    /\ qret.token_kind = "str"
    /\ LexCall([qret EXCEPT !.key = qret.str],
                [b \in BOOLEAN |-> IF b THEN "pe_value" ELSE "pe_ret"])
    /\ LexUnchanged

\* the rest of the pass: the field is appended and the next token read
PeValue ==
    /\ pc = "pe_value"
    /\ LexCall([qret EXCEPT !.fields = Append(@, [key |-> qret.key,
                                                    value |-> qret.str])],
                [b \in BOOLEAN |-> "pe_fields"])
    /\ LexUnchanged

\* the while loop is left: the entity is appended, '}' is expected and the
\* do loop goes on while the token after it is not the end of the input
PeClose ==
    /\ pc = "pe_fields"
    /\ qret.token_kind # "str"
    /\ IF ExpectLexes(qret.token_kind, "}")
       THEN LexCall([qret EXCEPT !.entities = Append(@, qret.fields)],
                    [b \in BOOLEAN |-> "pe_while"])
       ELSE /\ pc' = "pe_ret"
            /\ qret' = [qret EXCEPT !.entities = Append(@, qret.fields)]
    /\ LexUnchanged

\* while (lex.token_kind)
PeWhile ==
    /\ pc = "pe_while"
    /\ pc' = IF qret.token_kind # "eof" THEN "pe_open" ELSE "pe_ret"
    /\ UNCHANGED qret
    /\ LexUnchanged

NextLex == PeFirstToken \/ PeOpen \/ PeKey \/ PeValue \/ PeClose \/ PeWhile

SpecLex == InitLex /\ [][NextLex]_vars /\ WF_vars(NextLex)

(***************************************************************************)
(* Claims about the tracer (SpecTrace)                                     *)
(***************************************************************************)
Blockers == {"STARTS_OUT", "ENDS_OUT"}

\* C1: whenever a trace returns frac < 1, its contact plane has been set by
\* that same trace call, the embedded case (frac forced to 0) included.
C1_PlaneSetWhenBlocked ==
    pc = "trace_ret" => (work.frac < US => work.plane # UNSET)

Between(a, x, b) == (a <= x /\ x <= b) \/ (b <= x /\ x <= a)

\* C2: 0 <= frac <= 1; endpos is end when frac = 1 and otherwise
\* start + frac * (end - start) on the caller's unshifted start and end, so
\* endpos lies on the segment from start to end.
C2_FracAndEndpos ==
    pc = "trace_ret" =>
        /\ 0 <= work.frac /\ work.frac <= US
        /\ work.frac = US => work.endpos = targs.end
        /\ work.frac < US =>
               work.endpos = Lerp(targs.start, targs.end, work.frac)
        /\ \A i \in 1 .. 3 :
               Between(targs.start[i], work.endpos[i], targs.end[i])

\* a trace of the asymmetric player box that was clipped part of the way
C2_Witness ==
    /\ pc = "trace_ret"
    /\ 0 < work.frac /\ work.frac < US
    /\ work.start # targs.start
    /\ work.endpos # targs.start /\ work.endpos # targs.end

\* C3: after a trace in which no brushside set STARTS_OUT or ENDS_OUT (the
\* move starts and ends inside solid), ALL_SOLID is set in the flags.
C3_AllSolidFlag ==
    (pc = "trace_ret" /\ work.n_tested > 0 /\ work.flags \cap Blockers = {})
        => "ALL_SOLID" \in work.flags

\* C4: a trace with start = end yields frac = 1, except when the box is
\* embedded in a solid brush, and then ALL_SOLID is set.
C4_ZeroLengthTrace ==
    (pc = "trace_ret" /\ targs.start = targs.end)
        => (work.frac = US \/ "ALL_SOLID" \in work.flags)

(***************************************************************************)
(* Claims about the movement controller (Spec)                             *)
(***************************************************************************)
\* the step in which apply_jump fires
JumpFiresNow == pc = "apply_jump" /\ "JUMP_THIS_FRAME" \in movement'

\* C5: a jump that fires sets velocity.z = 270 and clears JUMP_HELD, and
\* after it no jump fires in a later tick until a new jump-press event
\* (non-repeat space key-down, right mouse button down) has been handled.
C5_NoRejump ==
    [][JumpFiresNow =>
          /\ jump_hist = "pressed"
          /\ velocity'[3] = JumpVelocity
          /\ "JUMP" \notin movement']_vars

\* a later tick, the player on the ground again, the key never released
\* since the jump: apply_jump has run and has not fired
C5_Witness ==
    /\ pc = "apply_friction"
    /\ jump_hist = "fired"
    /\ n_ticks >= 1
    /\ ~noclip
    /\ "JUMPING" \notin movement
    /\ "JUMP_THIS_FRAME" \notin movement

TickSteps ==
    << "trace_ground", "apply_look", "apply_jump", "apply_friction",
       "apply_acceleration", "apply_air_control", "integrate", "clear_jump",
       "loop" >>

\* the steps of a tick after apply_jump and before the end of update()
AfterJumpStep ==
    { "apply_friction", "apply_acceleration", "apply_air_control",
      "integrate", "clear_jump", "crash" }

\* C6: a tick runs ground trace, input rotation, jump, friction,
\* acceleration, air control, integration in this order and clears
\* JUMP_THIS_FRAME last; the flag is clear in every state between two ticks
\* and set only within the tick in which the jump fired.
C6_TickOrder ==
    [][ /\ \A i \in 1 .. 8 :
             pc = TickSteps[i] =>
                 pc' \in {TickSteps[i + 1]} \cup
                         (IF i = 7 THEN {"crash"} ELSE {})
        /\ "JUMP_THIS_FRAME" \in movement' =>
               pc' \in AfterJumpStep /\ jump_hist' = "fired" ]_vars

\* the jump fired in this tick and the acceleration step is about to see it
C6_Witness ==
    pc = "apply_acceleration" /\ "JUMP_THIS_FRAME" \in movement

\* the first ground trace has run
GroundTraced ==
    n_ticks > 0 \/ pc \in (AfterJumpStep \cup {"apply_look", "apply_jump"})

\* C7: ground_normal is non-null exactly when AIRBORNE is clear (stated for
\* the states from the first ground trace on).
C7_GroundNormalIffOnGround ==
    GroundTraced => ((ground_normal # NULL) <=> ("JUMPING" \notin movement))

\* C8 as claimed: whenever the player counts as in the air, the wishspeed
\* the acceleration step uses is at most cpm_wish_speed.
C8_AirWishspeedClamped ==
    (pc = "apply_air_control" /\ InAir(movement, noclip))
        => used_wishspeed <= cpm_wish_speed

\* pure strafe input: wishdir.strafe set, wishdir.forward not
PureStrafe == wishdir[2] # 0 /\ wishdir[1] = 0

\* C8 amended: the wishspeed the acceleration step uses is at most
\* cpm_wish_speed when noclip is off and AIRBORNE is set, and when the player
\* counts as in the air with pure strafe input; it is never above
\* sv_max_speed.
C8_AirWishspeedClampedAmended ==
    pc = "apply_air_control" =>
        /\ used_wishspeed <= sv_max_speed
        /\ ((~noclip /\ "JUMPING" \in movement) \/
            (InAir(movement, noclip) /\ PureStrafe))
               => used_wishspeed <= cpm_wish_speed

\* airborne with forward input: 320 was clamped to 30
C8_Witness ==
    /\ pc = "apply_air_control"
    /\ ~noclip /\ "JUMPING" \in movement
    /\ base_wishspeed = sv_max_speed
    /\ used_wishspeed = cpm_wish_speed

(***************************************************************************)
(* Claims about the loader (SpecLoad)                                      *)
(***************************************************************************)
\* C9: bsp_load returns success only for images that hold a whole header
\* with magic "IBSP" and version 46.
C9_HeaderValidated ==
    (pc = "load_ret" /\ load_ret.ret = 1) =>
        /\ image.size >= HeaderSize
        /\ image.magic = "IBSP"
        /\ image.version = 46

\* C10: bsp_load succeeds only if every directory entry lies inside the
\* image and every record lump's length is a multiple of its record size;
\* then every typed view lies inside the image.
C10_LumpsValidated ==
    (pc = "load_ret" /\ load_ret.ret = 1) =>
        /\ \A i \in 1 .. N_LUMPS :
               /\ image.dirents[i].offset >= 0
               /\ image.dirents[i].length >= 0
               /\ image.dirents[i].offset + image.dirents[i].length
                      <= image.size
        /\ \A i \in 1 .. 15 :
               /\ At(image.dirents, i).length % RecordSize[i] = 0
               /\ load_ret.views[i].offset +
                      load_ret.views[i].n * RecordSize[i] <= image.size

(***************************************************************************)
(* Claims about slide (SpecSlide)                                          *)
(***************************************************************************)
\* time_left after the i-th trace of the call and what followed it
TimeAfter(i) ==
    IF i < Len(last_slide.times)
    THEN last_slide.times[i + 1]
    ELSE last_slide.time_left

SlideFracs == { last_slide.fracs[i] : i \in 1 .. Len(last_slide.fracs) }

SpawnHasKey(key) ==
    \E i \in 1 .. Len(qret.entities) :
        /\ \E f \in 1 .. Len(qret.entities[i]) :
             /\ qret.entities[i][f].key = Text.classname
             /\ qret.entities[i][f].value = Text.spawn
             /\ \A g \in 1 .. f - 1 :
                  qret.entities[i][g].key # Text.classname
        /\ \A j \in 1 .. i - 1 : \A f \in 1 .. Len(qret.entities[j]) :
             (/\ qret.entities[j][f].key = Text.classname
              /\ \A g \in 1 .. f - 1 :
                   qret.entities[j][g].key # Text.classname)
                => qret.entities[j][f].value # Text.spawn
        /\ \E f \in 1 .. Len(qret.entities[i]) : qret.entities[i][f].key = key

\* C16: after the load of a lump, malformed or not, the camera is at the
\* origin (0,0,0) when no origin key was read and yaw is 0 when no angle
\* key was read.
C16_SpawnDefaults ==
    pc = "spawn_done" =>
        /\ ~SpawnHasKey(Text.origin) => camera_pos = zero3
        /\ ~SpawnHasKey(Text.angle) => camera_angle[1] = 0

\* C16 (amended): the camera is at (0,0,0) when no spawn entity was parsed
\* and at (0,0,60) when the spawn entity has no origin key; with an origin
\* key the components read replace those of (0,0,0) before z is raised by
\* 60; yaw is 0 when no angle key was read.
C16_SpawnDefaultsAmended ==
    pc = "spawn_done" =>
        /\ ~SpawnHasKey(Text.classname) => camera_pos = zero3
        /\ (SpawnHasKey(Text.classname) /\ ~SpawnHasKey(Text.origin))
             => camera_pos = << 0, 0, 60 * LS >>
        /\ SpawnHasKey(Text.origin) =>
             /\ camera_pos \in { << 100 * LS, 0, 84 * LS >>,
                                 << -8 * LS, 16 * LS, 60 * LS >>,
                                 << 0, 0, 60 * LS >> }
             /\ (\E i \in 1 .. Len(qargs.lump) :
                     qargs.lump[i].str = << "-", "8", " ", "1", "6" >>)
                  => camera_pos = << -8 * LS, 16 * LS, 60 * LS >>
        /\ ~SpawnHasKey(Text.angle) => camera_angle[1] = 0
        /\ camera_angle[1] \in { 0, 1, -2 }

C16_Witness ==
    /\ pc = "spawn_done"
    /\ SpawnHasKey(Text.angle)
    /\ ~SpawnHasKey(Text.origin)
    /\ Token(qargs.lump, Len(qargs.lump)).kind # "}"
    /\ camera_pos = << 0, 0, 60 * LS >>
    /\ camera_angle[1] = 1

(***************************************************************************)
(* Claims about the plane index (SpecPlanes)                               *)
(***************************************************************************)
\* the components of the plane's normal that are 1 or -1
UnitAxes == { i \in 1 .. 3 : qargs.pos[i] = US \/ qargs.pos[i] = -US }

SignbitsSum ==
    (IF qargs.pos[1] < 0 THEN 2 ^ 0 ELSE 0)
    + (IF qargs.pos[2] < 0 THEN 2 ^ 1 ELSE 0)
    + (IF qargs.pos[3] < 0 THEN 2 ^ 2 ELSE 0)

\* C17: signbits is the sum of 1<<i over the components with normal[i] < 0,
\* and the type is X, Y or Z if and only if exactly one component of the
\* normal has magnitude 1, NONAXIAL otherwise.
C17_PlaneIndex ==
    pc = "planes_done" =>
        /\ qret.index = SignbitsSum
        /\ qret.ret \in 0 .. 2 <=> Cardinality(UnitAxes) = 1
        /\ qret.ret \notin 0 .. 2 => qret.ret = PLANE_NONAXIAL

\* C17 (amended): signbits as above; the type is the axis of the first
\* component, in the order x, y, z, that has magnitude 1, and NONAXIAL when
\* there is none.  For a normal of length 1 that is the one component of
\* magnitude 1.
C17_PlaneIndexAmended ==
    pc = "planes_done" =>
        /\ qret.index = SignbitsSum
        /\ UnitAxes = {} => qret.ret = PLANE_NONAXIAL
        /\ UnitAxes # {} =>
             /\ qret.ret + 1 \in UnitAxes
             /\ \A i \in UnitAxes : qret.ret + 1 <= i

C17_Witness ==
    /\ pc = "planes_done"
    /\ UnitAxes = { 2, 3 }
    /\ qargs.pos[1] < 0
    /\ qret.ret = 1
    /\ qret.index \in { 1, 3, 5, 7 }

(***************************************************************************)
(* Claims about startup and exit (Spec)                                    *)
(***************************************************************************)
\* C18: the process exits with status 1 only before any tick (map argument
\* missing, bsp_load failed); once a quit event is handled running is
\* false, the process goes on to leave the loop after the current tick and
\* exits with status 0, having run no further tick: it has not ended in any
\* other way.
C18_ExitStatus ==
    /\ exit_status = 1 => (n_ticks = 0 /\ pc = "exit")
    /\ pc = "exit" => exit_status \in { 0, 1 }
    /\ exit_status = 0 => (pc = "exit" /\ running = 0)
    /\ (pc = "loop" /\ load_ret.ret # 1) => FALSE
    /\ running = 0 => pc # "crash"

(***************************************************************************)
(* Claims about the spatial queries (SpecQuery)                            *)
(***************************************************************************)
VisReturned == qargs.kind = "vis" /\ pc \in {"vis_ret", "query_fault"}

\* C11: cluster_visible(from, to) returns true whenever from or to is
\* negative, and does so without reading the visdata block.
C11_NegativeClusterVisible ==
    (VisReturned /\ (qargs.from < 0 \/ qargs.target < 0))
        => (pc = "vis_ret" /\ qret.ret = 1 /\ ~qret.read)

\* from and to name clusters of the block: vectors 0 .. n_vecs-1 of
\* sz_vecs bytes, one bit per cluster
InRangeClusters ==
    /\ qargs.from >= 0 /\ qargs.from < qargs.vis.n_vecs
    /\ qargs.target >= 0 /\ qargs.target < qargs.vis.n_vecs
    /\ qargs.target < 8 * qargs.vis.sz_vecs

\* C12: for non-negative in-range clusters the call returns, and its result
\* is bit (to mod 8) of byte from*sz_vecs + (to div 8) of the bit block;
\* with vectors 00000011 and 00000010 that is true, true, false, true for
\* (0,0), (0,1), (1,0), (1,1): the bit of (1,0) is not the bit of (0,1).
C12_VisibleIsBitOfVector ==
    (VisReturned /\ InRangeClusters) =>
        /\ pc = "vis_ret"
        /\ qret.ret =
             (qargs.vis.vecs[qargs.from * qargs.vis.sz_vecs
                             + (qargs.target \div 8) + 1]
                \div 2 ^ (qargs.target % 8)) % 2
        /\ qargs.vis.vecs = << 3, 0, 2, 0 >> =>
             qret.ret = (IF <<qargs.from, qargs.target>> = <<1, 0>>
                         THEN 0 ELSE 1)

C12_Witness ==
    /\ pc = "vis_ret"
    /\ qargs.vis.vecs = << 3, 0, 2, 0 >>
    /\ qargs.from = 1 /\ qargs.target = 0
    /\ qret.ret = 0

\* every child is a node of the array or a leaf id below n_leaves, and the
\* nodes can be ranked so that every child node ranks above its parent
AcyclicTree(t) ==
    /\ Len(t.nodes) > 0
    /\ \A i \in 1 .. Len(t.nodes) : \A k \in 1 .. 2 :
         /\ t.nodes[i].child[k] < Len(t.nodes)
         /\ (-t.nodes[i].child[k]) - 1 < t.n_leaves
    /\ \E rank \in [1 .. Len(t.nodes) -> 1 .. Len(t.nodes)] :
         \A i \in 1 .. Len(t.nodes) : \A k \in 1 .. 2 :
           t.nodes[i].child[k] >= 0 =>
             rank[t.nodes[i].child[k] + 1] > rank[i]

LeafQuery == qargs.kind = "leaf" /\ AcyclicTree(qargs.tree)

\* the side of the current node's plane that pos is on, from the plane lump
FrontSide ==
    dot3(qargs.pos, map_planes[qargs.tree.nodes[qret.index + 1].plane + 1].normal)
        >= map_planes[qargs.tree.nodes[qret.index + 1].plane + 1].dist

\* C13: on a finite acyclic node tree find_leaf starts at node 0, goes to
\* child[0] when pos.normal - dist >= 0 and to child[1] otherwise, visits no
\* node twice, stays inside the node array, returns -child - 1 in
\* [0, n_leaves), and terminates for every pos.
C13_FindLeafTerminates ==
    /\ [](LeafQuery =>
            /\ ~qret.twice /\ ~qret.oob /\ pc # "query_fault"
            /\ qret.visited = {} => qret.index = 0
            /\ pc = "leaf_ret" =>
                 /\ qret.index < 0
                 /\ qret.ret = -qret.index - 1
                 /\ qret.ret \in 0 .. qargs.tree.n_leaves - 1)
    /\ [][(LeafQuery /\ qret.index >= 0) =>
            qret'.index = qargs.tree.nodes[qret.index + 1]
                                .child[IF FrontSide THEN 1 ELSE 2]]_vars
    /\ (LeafQuery ~> pc = "leaf_ret")

C13_Witness ==
    /\ LeafQuery
    /\ pc = "leaf_ret"
    /\ Cardinality(qret.visited) = 3

\* the byte index of the call lies in the n_vecs * sz_vecs bytes of the block
InVisBlock ==
    qret.index >= 0 /\ qret.index < qargs.vis.n_vecs * qargs.vis.sz_vecs

\* C14: find_leaf returns leaf 0 when it leaves the node array (also with no
\* nodes), cluster_visible returns true when its byte index is outside the
\* visdata block, and neither reads outside the map arrays.
C14_SafeDefaults ==
    /\ pc # "query_fault"
    /\ (pc = "leaf_ret" /\ qret.oob) => qret.ret = 0
    /\ (pc = "vis_ret" /\ ~InVisBlock) => qret.ret = 1

(***************************************************************************)
(* C19: where a clipped trace stops relative to the contact plane         *)
(***************************************************************************)
\* a returned trace that was clipped part of the way by a brushside
Clipped ==
    /\ pc = "trace_ret"
    /\ 0 < work.frac /\ work.frac < US
    /\ work.plane # UNSET

\* distance of endpos from the contact plane, the plane moved out by the
\* hitbox corner exactly as trace_brush moves it
ContactDistance ==
    LET plane == At(map_planes, work.plane)
        signbits == planes[work.plane].signbits
        dist == plane.dist - dot3(Offsets(work, signbits), plane.normal)
        centre == Add3(work.endpos, Sub3(work.start, targs.start))
    IN  dot3(centre, plane.normal) - dist

\* the player box dropped from (16,16,100) to (16,16,0)
DropOntoCube ==
    /\ pc = "trace_ret"
    /\ targs.start = V3(16, 16, 100) /\ targs.end = V3(16, 16, 0)
    /\ targs.mins = player_mins /\ targs.maxs = player_maxs

\* the drop ends within SURF_CLIP_EPSILON of z = 56
DropEndsAt56 ==
    DropOntoCube =>
        /\ Clipped
        /\ work.endpos[3] - 56 * LS <= SURF_CLIP_EPSILON
        /\ 56 * LS - work.endpos[3] <= SURF_CLIP_EPSILON

RECURSIVE TestInOrder(_, _, _)
TestInOrder(w, list, i) ==
    IF i > Len(list)
    THEN w
    ELSE LET brush == At(map_brushes, list[i])
         IN  IF brush.n_brushsides # 0 /\
                (At(map_textures, brush.texture).contents % 2) = CONTENTS_SOLID
             THEN The({ IF w1.frac = 0 THEN w1 ELSE TestInOrder(w1, list, j) :
                          j \in {i + 1}, w1 \in {trace_brush(w, brush)} })
             ELSE The({ TestInOrder(w, list, j) : j \in {i + 1} })

Reversed(list) == [k \in 1 .. Len(list) |-> list[Len(list) + 1 - k]]

\* the brushside loop of the brush the loop is at, run on the current work
SidesNow ==
    BrushSides(work, LeafBrushAt(qret.index), 0,
               [start_frac |-> -US, end_frac |-> US, closest_plane |-> UNSET,
                flags |-> work.flags, ret |-> FALSE])

\* what the brush leaves in frac before the embedded rule is applied
FracBeforeRule ==
    IF ~SidesNow.ret /\ SidesNow.start_frac < SidesNow.end_frac /\
       SidesNow.start_frac > -US /\ SidesNow.start_frac < work.frac
    THEN Max(SidesNow.start_frac, 0)
    ELSE work.frac

\* C21: within one trace the flags start empty and only accumulate from brush
\* to brush; after a brush was tested, frac is forced to 0 exactly when no
\* brushside of this brush or of a brush tested earlier in the trace set
\* STARTS_OUT or ENDS_OUT, and is otherwise what the brushside loop gave.
C21_FlagsAccumulate ==
    /\ [](qret.index = 0 => work.flags \cap Blockers = {})
    /\ [][work.flags \subseteq work'.flags]_vars
    /\ [][work' # work =>
            IF work'.flags \cap Blockers = {}
            THEN work'.frac = 0
            ELSE work'.frac = FracBeforeRule]_vars

\* two brushes were tested, the trace came out free, and the same two
\* brushes in the other order stop the trace at frac 0
C21_Witness ==
    /\ pc = "tl_ret"
    /\ Len(qargs.lump) = 2
    /\ work.n_tested = 2
    /\ work.frac = US
    /\ TestInOrder(TraceStart(targs.start, targs.end, targs.mins, targs.maxs),
                   Reversed(qargs.lump), 1).frac = 0

(***************************************************************************)
(* C22: velocity and position after slide (SpecSlide)                      *)
(***************************************************************************)
\* slide is about to return; camera_pos and velocity still hold what the
\* call was entered with
SlideReturns == pc = "slide_exit" /\ pc' = "slide_ret"

\* the only trace of the call was free and there was no ground normal
FreeFall ==
    /\ "JUMPING" \in movement
    /\ ground_normal = NULL
    /\ last_slide.ret = "done"
    /\ last_slide.fracs = << US >>

FrictionStep == pc = "apply_friction" /\ pc' = "apply_acceleration"

FrictionSkipped ==
    ~noclip /\ ("JUMPING" \in movement \/ "JUMP_THIS_FRAME" \in movement)

\* max(0, speed - max(speed, 200) * 8 * dt) / speed
FrictionFactor(speed, dt) ==
    DivU(Max(0, speed - cl_movement_friction * MulU(Max(speed, cl_stop_speed),
                                                    dt)),
         speed)

\* C23: friction leaves velocity alone when noclip is off and the player is
\* airborne or jumped this frame; otherwise a speed below 1 clears the
\* horizontal components only, and a speed of 1 or more scales velocity by
\* max(0, speed - max(speed, 200)*8*dt)/speed, which neither raises the
\* speed nor reverses a component; (300,0,0) with dt = 0.1 becomes (60,0,0).
C23_Friction ==
    /\ [][(FrictionStep /\ FrictionSkipped) => velocity' = velocity]_vars
    /\ [][(FrictionStep /\ ~FrictionSkipped /\ mag3(velocity) < LS)
            => velocity' = << 0, 0, velocity[3] >>]_vars
    /\ [][(FrictionStep /\ ~FrictionSkipped /\ mag3(velocity) >= LS) =>
            /\ velocity' = Scale3(velocity,
                                  FrictionFactor(mag3(velocity), delta_time))
            /\ mag3(velocity') <= mag3(velocity)
            /\ \A i \in 1 .. 3 : velocity'[i] * velocity[i] >= 0]_vars
    /\ [][(FrictionStep /\ ~FrictionSkipped /\ delta_time = US \div 10 /\
            velocity = << 300 * LS, 0, 0 >>)
            => velocity' = << 60 * LS, 0, 0 >>]_vars

\* friction has slowed (300,0,0) on the ground down to (60,0,0)
C23_Witness ==
    /\ pc = "apply_acceleration"
    /\ ~noclip /\ movement = {}
    /\ delta_time = US \div 10
    /\ velocity = << 60 * LS, 0, 0 >>

(***************************************************************************)
(* C24: the acceleration step (SpecInputs)                                 *)
(***************************************************************************)
AccelStep == pc = "apply_acceleration" /\ pc' = "apply_air_control"

\* velocity . direction before the step
CurSpeed == dot3(velocity, direction)

\* a * dt * wishspeed for the acceleration apply_inputs selected and the
\* wishspeed apply_acceleration worked with
AccelSpeed ==
    MulU(TDiv(SelectAccel(movement, velocity, noclip, wishdir, direction)
                  * used_wishspeed', 10),
         delta_time)

\* C24: the acceleration step leaves velocity alone when wishspeed -
\* velocity.dir <= 0 and otherwise adds dir * min(a*dt*wishspeed, wishspeed -
\* velocity.dir), so velocity.dir afterwards is at most the larger of its
\* value before and wishspeed; an airborne pure strafe from rest with
\* dt = 0.01 gives speed 21 along dir.
C24_Acceleration ==
    /\ [][(AccelStep /\ used_wishspeed' - CurSpeed <= 0)
            => velocity' = velocity]_vars
    /\ [][(AccelStep /\ used_wishspeed' - CurSpeed > 0) =>
            velocity' = Add3(velocity,
                             Scale3(direction,
                                    Min(AccelSpeed,
                                        used_wishspeed' - CurSpeed)))]_vars
    /\ [][AccelStep =>
            dot3(velocity', direction) <= Max(CurSpeed, used_wishspeed')]_vars
    /\ [][(AccelStep /\ ~noclip /\ "JUMPING" \in movement /\
            velocity = zero3 /\ wishdir[1] = 0 /\ wishdir[2] # 0 /\
            delta_time = US \div 100)
            => /\ dot3(velocity', direction) = 21 * LS
               /\ mag3(velocity') = 21 * LS]_vars

\* an airborne pure strafe from rest has been accelerated to speed 21
C24_Witness ==
    /\ pc = "apply_air_control"
    /\ ~noclip /\ "JUMPING" \in movement
    /\ wishdir[1] = 0 /\ wishdir[2] # 0
    /\ delta_time = US \div 100
    /\ used_wishspeed = cpm_wish_speed
    /\ mag3(velocity) = 21 * LS
    /\ dot3(velocity, direction) = 21 * LS

(***************************************************************************)
(* C25: the air-control step (SpecInputs)                                  *)
(***************************************************************************)
AirControlStep == pc = "apply_air_control" /\ pc' = "integrate"

\* C25: the air-control step changes velocity only in a tick in which the
\* player is airborne, wishdir.forward is not zero and the base wishspeed is
\* above 0; in every other tick all three components stay as they were.
C25_AirControlOnlyAirborne ==
    [][(AirControlStep /\
        ~(InAir(movement, noclip) /\ wishdir[1] # 0 /\ base_wishspeed > 0))
        => velocity' = velocity]_vars

(***************************************************************************)
(* C26: clip_velocity (SpecClip)                                           *)
(***************************************************************************)
ClipStep == pc = "clip_call" /\ pc' = "clip_ret"

\* b: 1.001 * (v . n) when v . n < 0, (v . n) / 1.001 otherwise
ClipBackoff ==
    IF dot3(velocity, qargs.pos) < 0
    THEN TDiv(dot3(velocity, qargs.pos) * 1001, 1000)
    ELSE TDiv(dot3(velocity, qargs.pos) * 1000, 1001)

PosBefore(sl, pos, k) == IF k = 1 THEN pos ELSE sl.poss[k - 1]

\* C27: with noclip off, camera_pos changes during the ticks only in the step
\* that runs slide, and there every pass of the bump loop either takes the
\* endpos of its trace (frac > 0) or leaves the position where it was
\* (frac = 0); the position after the call is the one the last pass left.
C27_PositionFromTraces ==
    /\ [][(~noclip /\ pc # "init" /\ camera_pos' # camera_pos)
            => pc = "integrate"]_vars
    /\ [][(~noclip /\ pc = "integrate") =>
            /\ Len(last_slide'.fracs) >= 1
            /\ Len(last_slide'.ends) = Len(last_slide'.fracs)
            /\ Len(last_slide'.poss) = Len(last_slide'.fracs)
            /\ \A k \in 1 .. Len(last_slide'.fracs) :
                  last_slide'.poss[k] =
                      IF last_slide'.fracs[k] > 0
                      THEN last_slide'.ends[k]
                      ELSE PosBefore(last_slide', camera_pos, k)
            /\ camera_pos' = last_slide'.poss[Len(last_slide'.poss)]]_vars

\* a slide has moved the player to the endpos of a blocked trace and then,
\* in a second pass, on to the endpos of the next trace
C27_Witness ==
    /\ pc = "clear_jump"
    /\ ~noclip
    /\ Len(last_slide.fracs) = 2
    /\ 0 < last_slide.fracs[1] /\ last_slide.fracs[1] < US
    /\ last_slide.poss[1] = last_slide.ends[1]
    /\ last_slide.poss[2] # last_slide.poss[1]
    /\ camera_pos = last_slide.ends[2]

(***************************************************************************)
(* C28: the wish vector after key events (SpecKeys)                        *)
(***************************************************************************)
\* C28: after any sequence of key-down and key-up events wishdir.forward is
\* -400, 0 or 400, wishdir.strafe is -350, 0 or 350 and wishdir.up is 0, and
\* a key-down event flagged as a repeat changes nothing.
C28_WishdirValues ==
    /\ [](/\ wishdir[1] \in { -(400 * LS), 0, 400 * LS }
          /\ wishdir[2] \in { -(350 * LS), 0, 350 * LS }
          /\ wishdir[3] = 0)
    /\ [][\A k \in MoveKeys \cup { "f", "space", "escape" } :
            Handle(KeyDown(k, 1)) => UNCHANGED vars]_vars

\* S and A are held: backwards and to the left
C28_Witness ==
    /\ pc = "poll"
    /\ wishdir = << -(400 * LS), 350 * LS, 0 >>

(***************************************************************************)
(* Claims about the entity lexer (SpecLex)                                 *)
(***************************************************************************)
\* the parser has returned
ParseReturned == pc = "pe_ret"

\* lexer calls left at most: every call consumes a character or the NUL
CallsBound == Len(qargs.lump) + 1

\* C29: for every NUL-terminated text, well formed or not, parse_entities
\* returns: every step before the return is a lexer call, there are at most
\* as many calls as the text has bytes, and a step is possible until the
\* parser has returned.  The lexer is not called again once it has returned
\* the end-of-input token, it reads no byte past the terminating NUL, and p
\* never points further than one past the NUL.
C29_LexerStopsAtEnd ==
    /\ <>ParseReturned
    /\ [](~qret.after_eof /\ ~qret.beyond)
    /\ [](qret.p <= Len(qargs.lump) + 2 /\ qret.n_calls <= CallsBound)
    /\ [](pc # "pe_undefined")
    /\ [](~ParseReturned => ENABLED NextLex)
    /\ [][qret.n_calls' = qret.n_calls + 1 \/ pc = "pe_while"
            \/ ParseReturned']_vars

\* an unterminated string has been lexed with p left on the NUL, the parser
\* has then read the end-of-input token and returned with p one past the NUL
C29_Witness ==
    /\ ParseReturned
    /\ qargs.lump = << "{", Quote, "a", Quote, Quote, "a" >>
    /\ qret.eof_returned
    /\ qret.p = Len(qargs.lump) + 2
    /\ qret.str = << "a" >>
    /\ qret.n_calls = 4

====
